---- MODULE Spec2Model ----
(***************************************************************************)
(* Model of appPad's global terminal: the exec marker protocol codec, the  *)
(* exec request queue, session lifecycle and display flow control.         *)
(*                                                                         *)
(* Strings of the program are sequences of one-character strings, so that  *)
(* slicing, searching and chunk boundaries are what they are in the code.  *)
(* null is the empty sequence <<>>, a present value v is <<v>>.            *)
(***************************************************************************)
EXTENDS Integers, Sequences, FiniteSets, TLC

VARIABLES
    \* ---- lib/globalTerminal.ts (module state)
    nextExecRequestId,          \* counter of executeWithGlobalTerminal calls
    resultListenerBound,
    terminalStateListenerBound,
    terminalReady,
    queuedExecDispatches,       \* Map in insertion order: sequence of ExecRequest
    pendingExecRequests,        \* keys of the Map of pending requests
    armedTimers,                \* requests whose window.setTimeout is armed
    promiseResults,             \* per request, the values its promise was resolved with
    \* ---- GlobalTerminalPanel (refs of the mounted component)
    sessionIdRef,               \* 0 is null
    suppressNextExitRef,
    creatingSessionRef,
    pumpingOutputRef,
    flowPausedRef,
    pendingOutputRef,           \* display chunks, each kept by its length
    pendingBytesRef,
    execQueueRef,               \* sequence of ExecRequest
    activeExecRef,              \* <<>> or <<ActiveExecState>>
    suppressNextPromptRef,
    sessionJustStartedRef,
    userInteractedRef,
    selectedShellRef,           \* "zsh" or "bash"
    termRef,                    \* TRUE while the xterm instance of the mount effect exists
    \* ---- suspended async functions of the panel
    microtasks,                 \* continuations ready to run, in order
    ensureCaller,               \* <<>> or <<frame awaiting the running ensureSession>>
    termWritesOutstanding,      \* term.write calls whose callback has not run
    \* ---- main process
    terminalSessions,           \* Map sessionId -> [flowPaused]
    nextTerminalSessionId,
    ptyRunning,                 \* spawned ptys whose onExit has not fired
    ptyLog,                     \* calls made on ptys: spawn, write (text in data, a
                                \* Buffer in bytes), pause, resume, kill
    ptyEmitted,                 \* per session, how many scripted chunks its shell printed
    toRenderer,                 \* IPC messages main -> renderer, in order
    \* ---- observation
    execResults,                \* result events dispatched by dispatchExecResult
    \* ---- the session output of one request, arriving in chunks (SpecCodec, SpecCapture)
    stream,                     \* everything the session prints for the request
    fedPos,                     \* how much of it the pty has handed over
    cmdOut,                     \* the command's own output, line by line
    cmdCode,                    \* the command's exit code
    chunksFed,                  \* chunks handed over so far, counted up to MaxChunkCount
    \* ---- the user
    shellSwitches               \* shell switches requested so far

libVars == <<nextExecRequestId, resultListenerBound, terminalStateListenerBound, terminalReady,
             queuedExecDispatches, pendingExecRequests, armedTimers, promiseResults>>

panelVars == <<sessionIdRef, suppressNextExitRef, creatingSessionRef, pumpingOutputRef,
               flowPausedRef, pendingOutputRef, pendingBytesRef, execQueueRef, activeExecRef,
               suppressNextPromptRef, sessionJustStartedRef, userInteractedRef,
               selectedShellRef, termRef>>

asyncVars == <<microtasks, ensureCaller, termWritesOutstanding>>

mainVars == <<terminalSessions, nextTerminalSessionId, ptyRunning, ptyLog, ptyEmitted, toRenderer>>

obsVars == <<execResults>>

feedVars == <<stream, fedPos, cmdOut, cmdCode, chunksFed>>

userVars == <<shellSwitches>>

envVars == <<feedVars, userVars>>

vars == <<libVars, panelVars, asyncVars, mainVars, obsVars, feedVars, userVars>>

----------------------------------------------------------------------------
(* JavaScript string built-ins, with the code's 0-based offsets            *)

Min(S) == CHOOSE x \in S : \A y \in S : x <= y

Max(S) == CHOOSE x \in S : \A y \in S : y <= x

\* s.slice(a, b) for 0 <= a: offsets beyond the end are clamped
slice(s, a, b) ==
    LET e == IF b > Len(s) THEN Len(s) ELSE b
    IN  IF a >= e THEN <<>> ELSE SubSeq(s, a + 1, e)

sliceFrom(s, a) == slice(s, a, Len(s))

startsWith(s, p) == Len(p) <= Len(s) /\ SubSeq(s, 1, Len(p)) = p

endsWith(s, p) == Len(p) <= Len(s) /\ SubSeq(s, Len(s) - Len(p) + 1, Len(s)) = p

indexOf(s, sub, from) ==
    LET c == {i \in from..(Len(s) - Len(sub)) : SubSeq(s, i + 1, i + Len(sub)) = sub}
    IN  IF c = {} THEN -1 ELSE Min(c)

includes(s, sub) == indexOf(s, sub, 0) # -1

charAt(s, i) == IF i >= 0 /\ i < Len(s) THEN <<s[i + 1]>> ELSE <<>>

IsSpace(c) == c \in {" ", "\t", "\n", "\r"}

IsDigit(c) == c \in {"0", "1", "2", "3", "4", "5", "6", "7", "8", "9"}

DigitValue(c) ==
    CASE c = "0" -> 0 [] c = "1" -> 1 [] c = "2" -> 2 [] c = "3" -> 3 [] c = "4" -> 4
      [] c = "5" -> 5 [] c = "6" -> 6 [] c = "7" -> 7 [] c = "8" -> 8 [] c = "9" -> 9

DigitChar(d) == <<"0", "1", "2", "3", "4", "5", "6", "7", "8", "9">>[d + 1]

RECURSIVE parseDigits(_)
parseDigits(s) ==
    IF s = <<>> THEN 0
    ELSE parseDigits(SubSeq(s, 1, Len(s) - 1)) * 10 + DigitValue(s[Len(s)])

\* Number.parseInt(s, 10) of a string the done pattern captured: -?\d+
parseInt(s) == IF s[1] = "-" THEN 0 - parseDigits(Tail(s)) ELSE parseDigits(s)

\* String(n) of an integer
RECURSIVE natToString(_)
natToString(n) ==
    IF n < 10 THEN <<DigitChar(n)>> ELSE natToString(n \div 10) \o <<DigitChar(n % 10)>>

intToString(n) == IF n < 0 THEN <<"-">> \o natToString(0 - n) ELSE natToString(n)

\* String.prototype.trim() leaves nothing
trimIsEmpty(s) == \A i \in 1..Len(s) : IsSpace(s[i])

\* String.prototype.trim()
trim(s) ==
    LET kept == {i \in 1..Len(s) : ~IsSpace(s[i])}
    IN  IF kept = {} THEN <<>> ELSE SubSeq(s, Min(kept), Max(kept))

UpperCaseLetters ==
    <<"A", "B", "C", "D", "E", "F", "G", "H", "I", "J", "K", "L", "M",
      "N", "O", "P", "Q", "R", "S", "T", "U", "V", "W", "X", "Y", "Z">>

LowerCaseLetters ==
    <<"a", "b", "c", "d", "e", "f", "g", "h", "i", "j", "k", "l", "m",
      "n", "o", "p", "q", "r", "s", "t", "u", "v", "w", "x", "y", "z">>

\* String.prototype.toLowerCase() of an ASCII string
toLowerCase(s) ==
    [i \in 1..Len(s) |->
        IF \E k \in 1..26 : UpperCaseLetters[k] = s[i]
        THEN LowerCaseLetters[CHOOSE k \in 1..26 : UpperCaseLetters[k] = s[i]]
        ELSE s[i]]

\* s.split('/').pop(): what follows the last slash
lastSegment(s) ==
    LET slashes == {i \in 1..Len(s) : s[i] = "/"}
    IN  IF slashes = {} THEN s ELSE SubSeq(s, Max(slashes) + 1, Len(s))

----------------------------------------------------------------------------
(* Constants of the terminal panel                                         *)

EXEC_BEGIN_MARKER_PREFIX ==
    <<"_", "_", "A", "P", "P", "P", "A", "D", "_", "E", "X", "E", "C", "_",
      "B", "E", "G", "I", "N", "_", "_">>

EXEC_DONE_MARKER_PREFIX ==
    <<"_", "_", "A", "P", "P", "P", "A", "D", "_", "E", "X", "E", "C", "_",
      "D", "O", "N", "E", "_", "_">>

\* '__apppad_exec_code=$?'
ExecCodeAssignment ==
    <<"_", "_", "a", "p", "p", "p", "a", "d", "_", "e", "x", "e", "c", "_",
      "c", "o", "d", "e", "=", "$", "?">>

\* "printf '%s%s%s\\n'"
PrintfDoneInvocation ==
    <<"p", "r", "i", "n", "t", "f", " ", "'", "%", "s", "%", "s", "%", "s", "\\", "n", "'">>

\* the request id `exec-${Date.now()}-${n}`, of which the model keeps the counter n
RequestIdString(n) == <<"e">> \o natToString(n)

BeginMarkerOf(requestId) == EXEC_BEGIN_MARKER_PREFIX \o requestId \o <<"_", "_">>

DoneMarkerOf(requestId) == EXEC_DONE_MARKER_PREFIX \o requestId \o <<"_">>

\* an ActiveExecState that counts as started before its begin marker was seen
NewActiveExecStarted(requestId) ==
    [requestId |-> requestId,
     beginMarker |-> BeginMarkerOf(RequestIdString(requestId)),
     doneMarker |-> DoneMarkerOf(RequestIdString(requestId)),
     started |-> TRUE,
     partial |-> <<>>,
     outputFilterPartial |-> <<>>,
     captured |-> <<>>]

\* the ActiveExecState startNextExec creates for a request
NewActiveExec(requestId) ==
    [requestId |-> requestId,
     beginMarker |-> BeginMarkerOf(RequestIdString(requestId)),
     doneMarker |-> DoneMarkerOf(RequestIdString(requestId)),
     started |-> FALSE,
     partial |-> <<>>,
     outputFilterPartial |-> <<>>,
     captured |-> <<>>]

----------------------------------------------------------------------------
(* Marker search                                                           *)

getMarkerTailLength(input, marker) ==
    LET upper == IF Len(input) < Len(marker) - 1 THEN Len(input) ELSE Len(marker) - 1
        hits == {len \in 1..upper : endsWith(input, SubSeq(marker, 1, len))}
    IN  IF hits = {} THEN 0 ELSE CHOOSE len \in hits : \A o \in hits : o <= len

StandaloneNeighbourOk(c) == c = <<>> \/ c = <<"\n">> \/ c = <<"\r">>

RECURSIVE findStandaloneFrom(_, _, _)
findStandaloneFrom(input, marker, searchFrom) ==
    IF searchFrom >= Len(input) THEN -1
    ELSE LET idx == indexOf(input, marker, searchFrom)
         IN  IF idx = -1 THEN -1
             ELSE LET prev == IF idx = 0 THEN <<>> ELSE charAt(input, idx - 1)
                      next == charAt(input, idx + Len(marker))
                  IN  IF StandaloneNeighbourOk(prev) /\ StandaloneNeighbourOk(next)
                      THEN idx
                      ELSE findStandaloneFrom(input, marker, idx + Len(marker))

findStandaloneMarkerLine(input, marker) == findStandaloneFrom(input, marker, 0)

----------------------------------------------------------------------------
(* Noise filter                                                            *)

\* line.replace(/\r?\n$/, '')
stripLineEnd(line) ==
    IF endsWith(line, <<"\r", "\n">>) THEN SubSeq(line, 1, Len(line) - 2)
    ELSE IF endsWith(line, <<"\n">>) THEN SubSeq(line, 1, Len(line) - 1)
    ELSE line

\* /^\s*%\s*$/
IsBarePercent(s) ==
    \E k \in 1..Len(s) : s[k] = "%" /\ \A i \in 1..Len(s) : i # k => IsSpace(s[i])

\* /^\s*~\s*'\s*$/
IsBareTildeQuote(s) ==
    \E k \in 1..Len(s) : \E m \in (k + 1)..Len(s) :
        /\ s[k] = "~"
        /\ s[m] = "'"
        /\ \A i \in 1..Len(s) : (i # k /\ i # m) => IsSpace(s[i])

\* a filter that does not know the exit-code assignment text
shouldFilterExecNoiseLineNoAssignment(line, beginMarker, doneMarker) ==
    LET normalized == stripLineEnd(line)
    IN  IF trimIsEmpty(normalized) THEN FALSE
        ELSE \/ includes(normalized, PrintfDoneInvocation)
             \/ includes(normalized, beginMarker)
             \/ includes(normalized, doneMarker)
             \/ IsBarePercent(normalized)
             \/ IsBareTildeQuote(normalized)

\* the tests of shouldFilterExecNoiseLine on the line without its line end
isExecNoise(normalized, beginMarker, doneMarker) ==
    IF trimIsEmpty(normalized) THEN FALSE
    ELSE \/ includes(normalized, ExecCodeAssignment)
         \/ includes(normalized, PrintfDoneInvocation)
         \/ includes(normalized, beginMarker)
         \/ includes(normalized, doneMarker)
         \/ IsBarePercent(normalized)
         \/ IsBareTildeQuote(normalized)

shouldFilterExecNoiseLine(line, beginMarker, doneMarker) ==
    isExecNoise(stripLineEnd(line), beginMarker, doneMarker)

RECURSIVE filterLinesFrom(_, _, _, _, _)
filterLinesFrom(combined, cursor, visible, beginMarker, doneMarker) ==
    IF cursor >= Len(combined) THEN [visible |-> visible, partial |-> sliceFrom(combined, cursor)]
    ELSE LET nextLf == indexOf(combined, <<"\n">>, cursor)
         IN  IF nextLf = -1
             THEN [visible |-> visible, partial |-> sliceFrom(combined, cursor)]
             ELSE LET lineWithLf == slice(combined, cursor, nextLf + 1)
                      keep == ~shouldFilterExecNoiseLine(lineWithLf, beginMarker, doneMarker)
                  IN  filterLinesFrom(combined, nextLf + 1,
                                      IF keep THEN visible \o lineWithLf ELSE visible,
                                      beginMarker, doneMarker)

filterExecNoiseChunk(chunk, active) ==
    filterLinesFrom(active.outputFilterPartial \o chunk, 0, <<>>,
                    active.beginMarker, active.doneMarker)

----------------------------------------------------------------------------
(* The done pattern  (?:^|\r?\n)<doneMarker>(-?\d+)__                      *)

\* the number of digits of s from offset d0 on
digitRun(s, d0) == Max({n \in 0..(Len(s) - d0) : \A i \in 1..n : IsDigit(s[d0 + i])})

\* the capture from offset j, its digits from d0 up to e, when "__" follows: <<>> or <<text>>
doneCodeBetween(s, j, d0, e) ==
    IF e > d0 /\ slice(s, e, e + 2) = <<"_", "_">> THEN <<slice(s, j, e)>> ELSE <<>>

\* the capture (-?\d+) at offset j of s when "__" follows it: <<>> or <<text>>
doneCodeAt(s, j) ==
    LET d0 == IF charAt(s, j) = <<"-">> THEN j + 1 ELSE j
    IN  IF d0 > Len(s) THEN <<>> ELSE doneCodeBetween(s, j, d0, d0 + digitRun(s, d0))

\* the marker and the capture tried at offset at: <<>> or <<text>>
doneMarkerAt(s, doneMarker, at) ==
    IF slice(s, at, at + Len(doneMarker)) = doneMarker
    THEN doneCodeAt(s, at + Len(doneMarker))
    ELSE <<>>

\* the length of \r?\n at offset i, 0 for none
lineBreakAt(s, i) ==
    IF slice(s, i, i + 2) = <<"\r", "\n">> THEN 2
    ELSE IF charAt(s, i) = <<"\n">> THEN 1
    ELSE 0

\* the pattern tried at offset i, ^ before \r?\n: <<>> or <<capture>>
doneMatchAt(s, doneMarker, i) ==
    IF i = 0 /\ doneMarkerAt(s, doneMarker, 0) # <<>> THEN doneMarkerAt(s, doneMarker, 0)
    ELSE IF lineBreakAt(s, i) = 0 THEN <<>>
    ELSE doneMarkerAt(s, doneMarker, i + lineBreakAt(s, i))

\* the match at the least of the offsets where the pattern matches: <<>> or <<[index, code]>>
leftmostDoneMatch(combined, doneMarker, hits) ==
    IF hits = {} THEN <<>>
    ELSE <<[index |-> Min(hits), code |-> doneMatchAt(combined, doneMarker, Min(hits))[1]]>>

\* donePattern.exec(combined): the leftmost match
donePatternExec(combined, doneMarker) ==
    leftmostDoneMatch(combined, doneMarker,
                      {i \in 0..Len(combined) : doneMatchAt(combined, doneMarker, i) # <<>>})

----------------------------------------------------------------------------
(* Results                                                                 *)

\* a done result that never fills stderr
DoneResultEmptyStderr(exitCode, stdout) ==
    [success |-> exitCode = 0, code |-> <<exitCode>>, stdout |-> stdout, stderr |-> "",
     error |-> IF exitCode = 0 THEN <<>>
               ELSE <<"Command exited with code " \o ToString(exitCode) \o ".">>]

\* the result dispatched when the done marker carries exitCode
DoneResult(exitCode, stdout) ==
    IF exitCode = 0
    THEN [success |-> TRUE, code |-> <<0>>, stdout |-> stdout, stderr |-> "", error |-> <<>>]
    ELSE LET errorMessage == "Command exited with code " \o ToString(exitCode) \o "."
         IN  [success |-> FALSE, code |-> <<exitCode>>, stdout |-> stdout,
              stderr |-> errorMessage, error |-> <<errorMessage>>]

\* the failure result of failPendingExecRequests, of a failed write and of a timeout
FailureResult(stdout, message) ==
    [success |-> FALSE, code |-> <<>>, stdout |-> stdout, stderr |-> "", error |-> <<message>>]

----------------------------------------------------------------------------
(* processExecOutput on the ActiveExecState: what it leaves in             *)
(* activeExecRef, what it returns for display, the result it dispatches    *)
(* and whether it goes on to startNextExec                                 *)

\* no done marker in combined: a possible prefix of the marker is held back and the
\* rest, filtered, is captured and displayed
processWithoutDone(active, combined, keepLen, filtered) ==
    [active |-> <<[active EXCEPT
                     !.partial = sliceFrom(combined, Len(combined) - keepLen),
                     !.outputFilterPartial = filtered.partial,
                     !.captured = @ \o filtered.visible]>>,
     visible |-> filtered.visible,
     results |-> <<>>,
     done |-> FALSE]

\* the done marker is at markerIndex: the request resolves with what was captured
processDone(active, combined, code, markerIndex, filteredBefore) ==
    LET parsedCode == parseInt(code)
        markerSuffixLength == Len(active.doneMarker) + Len(code) + 2
        flushed == IF /\ filteredBefore.partial # <<>>
                      /\ ~shouldFilterExecNoiseLine(filteredBefore.partial,
                                                    active.beginMarker, active.doneMarker)
                   THEN filteredBefore.partial
                   ELSE <<>>
        stdout == active.captured \o filteredBefore.visible \o flushed
    IN  [active |-> <<>>,
         visible |-> filteredBefore.visible
                     \o sliceFrom(combined, markerIndex + markerSuffixLength),
         results |-> <<[requestId |-> active.requestId,
                        result |-> DoneResult(parsedCode, stdout)]>>,
         done |-> TRUE]

\* processExecOutput from donePattern.exec(combined) on
processCombined(active, combined, doneMatch) ==
    IF doneMatch = <<>>
    THEN LET keepLen == getMarkerTailLength(combined, active.doneMarker)
             rawVisible == slice(combined, 0, Len(combined) - keepLen)
         IN  processWithoutDone(active, combined, keepLen,
                                filterExecNoiseChunk(rawVisible, active))
    ELSE LET markerIndex == indexOf(combined, active.doneMarker, doneMatch[1].index)
             rawVisibleBefore == slice(combined, 0, markerIndex)
         IN  processDone(active, combined, doneMatch[1].code, markerIndex,
                         filterExecNoiseChunk(rawVisibleBefore, active))

processStartedOutput(active, incoming) ==
    processCombined(active, active.partial \o incoming,
                    donePatternExec(active.partial \o incoming, active.doneMarker))

\* the begin marker was found: what follows it, less one line break, is the output
processAfterBegin(active, afterBeginRaw) ==
    processStartedOutput(
        [active EXCEPT !.started = TRUE, !.partial = <<>>],
        IF startsWith(afterBeginRaw, <<"\r", "\n">>) THEN sliceFrom(afterBeginRaw, 2)
        ELSE IF startsWith(afterBeginRaw, <<"\n">>) THEN sliceFrom(afterBeginRaw, 1)
        ELSE afterBeginRaw)

\* a processExecOutput that keeps no more than the possible prefix of the begin marker
processNotStartedKeepsPrefix(active, combined, beginIndex) ==
    IF beginIndex = -1
    THEN LET keepLen == getMarkerTailLength(combined, active.beginMarker)
         IN  [active |-> <<[active EXCEPT
                              !.partial = sliceFrom(combined, Len(combined) - keepLen)]>>,
              visible |-> <<>>, results |-> <<>>, done |-> FALSE]
    ELSE processAfterBegin(active,
                           sliceFrom(combined, beginIndex + Len(active.beginMarker)))

\* processExecOutput before the begin marker was seen
processNotStarted(active, combined, beginIndex) ==
    IF beginIndex = -1
    THEN LET tail == getMarkerTailLength(combined, active.beginMarker)
             keepLen == IF tail > Len(active.beginMarker)
                        THEN tail ELSE Len(active.beginMarker)
             from == IF Len(combined) - keepLen > 0
                     THEN Len(combined) - keepLen ELSE 0
         IN  [active |-> <<[active EXCEPT !.partial = sliceFrom(combined, from)]>>,
              visible |-> <<>>, results |-> <<>>, done |-> FALSE]
    ELSE processAfterBegin(active,
                           sliceFrom(combined, beginIndex + Len(active.beginMarker)))

processExecOutput(activeRef, incoming) ==
    IF activeRef = <<>>
    THEN [active |-> <<>>, visible |-> incoming, results |-> <<>>, done |-> FALSE]
    ELSE IF ~activeRef[1].started
    THEN processNotStarted(activeRef[1], activeRef[1].partial \o incoming,
                           findStandaloneMarkerLine(activeRef[1].partial \o incoming,
                                                    activeRef[1].beginMarker))
    ELSE processStartedOutput(activeRef[1], incoming)

----------------------------------------------------------------------------
(* Bounds of the model                                                     *)

MaxRequests == 2

MaxSessions == 3

MaxSwitches == 1

MaxKeystrokes == 1

(* Program constants                                                       *)

OUTPUT_PAUSE_WATERMARK == 524288

OUTPUT_RESUME_WATERMARK == 131072

\* length of "\r\n[terminal exited (" ... ")]\r\nPress Enter to restart shell session.\r\n"
\* without the exit code
ExitNoticeFixedLength == 63

\* length of "failed to start terminal session\r\n"
SpawnErrorNoticeLength == 34

\* Math.round(timeoutMs / 1000)
TimeoutSeconds == 1800

----------------------------------------------------------------------------
(* The whole state as one record, so that a handler is a function from     *)
(* state to state and handlers compose the way the calls do in the code    *)

St ==
    [nextExecRequestId |-> nextExecRequestId,
     resultListenerBound |-> resultListenerBound,
     terminalStateListenerBound |-> terminalStateListenerBound,
     terminalReady |-> terminalReady,
     queuedExecDispatches |-> queuedExecDispatches,
     pendingExecRequests |-> pendingExecRequests,
     armedTimers |-> armedTimers,
     promiseResults |-> promiseResults,
     sessionIdRef |-> sessionIdRef,
     suppressNextExitRef |-> suppressNextExitRef,
     creatingSessionRef |-> creatingSessionRef,
     pumpingOutputRef |-> pumpingOutputRef,
     flowPausedRef |-> flowPausedRef,
     pendingOutputRef |-> pendingOutputRef,
     pendingBytesRef |-> pendingBytesRef,
     execQueueRef |-> execQueueRef,
     activeExecRef |-> activeExecRef,
     suppressNextPromptRef |-> suppressNextPromptRef,
     sessionJustStartedRef |-> sessionJustStartedRef,
     userInteractedRef |-> userInteractedRef,
     selectedShellRef |-> selectedShellRef,
     termRef |-> termRef,
     microtasks |-> microtasks,
     ensureCaller |-> ensureCaller,
     termWritesOutstanding |-> termWritesOutstanding,
     terminalSessions |-> terminalSessions,
     nextTerminalSessionId |-> nextTerminalSessionId,
     ptyRunning |-> ptyRunning,
     ptyLog |-> ptyLog,
     ptyEmitted |-> ptyEmitted,
     toRenderer |-> toRenderer,
     execResults |-> execResults]

Commit(s) ==
    /\ nextExecRequestId' = s.nextExecRequestId
    /\ resultListenerBound' = s.resultListenerBound
    /\ terminalStateListenerBound' = s.terminalStateListenerBound
    /\ terminalReady' = s.terminalReady
    /\ queuedExecDispatches' = s.queuedExecDispatches
    /\ pendingExecRequests' = s.pendingExecRequests
    /\ armedTimers' = s.armedTimers
    /\ promiseResults' = s.promiseResults
    /\ sessionIdRef' = s.sessionIdRef
    /\ suppressNextExitRef' = s.suppressNextExitRef
    /\ creatingSessionRef' = s.creatingSessionRef
    /\ pumpingOutputRef' = s.pumpingOutputRef
    /\ flowPausedRef' = s.flowPausedRef
    /\ pendingOutputRef' = s.pendingOutputRef
    /\ pendingBytesRef' = s.pendingBytesRef
    /\ execQueueRef' = s.execQueueRef
    /\ activeExecRef' = s.activeExecRef
    /\ suppressNextPromptRef' = s.suppressNextPromptRef
    /\ sessionJustStartedRef' = s.sessionJustStartedRef
    /\ userInteractedRef' = s.userInteractedRef
    /\ selectedShellRef' = s.selectedShellRef
    /\ termRef' = s.termRef
    /\ microtasks' = s.microtasks
    /\ ensureCaller' = s.ensureCaller
    /\ termWritesOutstanding' = s.termWritesOutstanding
    /\ terminalSessions' = s.terminalSessions
    /\ nextTerminalSessionId' = s.nextTerminalSessionId
    /\ ptyRunning' = s.ptyRunning
    /\ ptyLog' = s.ptyLog
    /\ ptyEmitted' = s.ptyEmitted
    /\ toRenderer' = s.toRenderer
    /\ execResults' = s.execResults

StateIs(s) ==
    /\ nextExecRequestId = s.nextExecRequestId
    /\ resultListenerBound = s.resultListenerBound
    /\ terminalStateListenerBound = s.terminalStateListenerBound
    /\ terminalReady = s.terminalReady
    /\ queuedExecDispatches = s.queuedExecDispatches
    /\ pendingExecRequests = s.pendingExecRequests
    /\ armedTimers = s.armedTimers
    /\ promiseResults = s.promiseResults
    /\ sessionIdRef = s.sessionIdRef
    /\ suppressNextExitRef = s.suppressNextExitRef
    /\ creatingSessionRef = s.creatingSessionRef
    /\ pumpingOutputRef = s.pumpingOutputRef
    /\ flowPausedRef = s.flowPausedRef
    /\ pendingOutputRef = s.pendingOutputRef
    /\ pendingBytesRef = s.pendingBytesRef
    /\ execQueueRef = s.execQueueRef
    /\ activeExecRef = s.activeExecRef
    /\ suppressNextPromptRef = s.suppressNextPromptRef
    /\ sessionJustStartedRef = s.sessionJustStartedRef
    /\ userInteractedRef = s.userInteractedRef
    /\ selectedShellRef = s.selectedShellRef
    /\ termRef = s.termRef
    /\ microtasks = s.microtasks
    /\ ensureCaller = s.ensureCaller
    /\ termWritesOutstanding = s.termWritesOutstanding
    /\ terminalSessions = s.terminalSessions
    /\ nextTerminalSessionId = s.nextTerminalSessionId
    /\ ptyRunning = s.ptyRunning
    /\ ptyLog = s.ptyLog
    /\ ptyEmitted = s.ptyEmitted
    /\ toRenderer = s.toRenderer
    /\ execResults = s.execResults

----------------------------------------------------------------------------
(* Main process: the session table and its IPC handlers.  A request of the *)
(* renderer is handled when it is sent (requests are handled in the order  *)
(* sent); its reply joins the messages to the renderer.                    *)

Reply(s, frame, ok) ==
    [s EXCEPT !.toRenderer = Append(@, [type |-> "reply", frame |-> frame, ok |-> ok])]

ZshPath == <<"/", "b", "i", "n", "/", "z", "s", "h">>

BashPath == <<"/", "b", "i", "n", "/", "b", "a", "s", "h">>

\* process.env.APPPAD_TERMINAL_SHELL || process.env.SHELL || '/bin/zsh' where the
\* environment has SHELL=/bin/sh and no APPPAD_TERMINAL_SHELL
DefaultShell == <<"/", "b", "i", "n", "/", "s", "h">>

\* normalizeTerminalShell handing an unrecognised path on
normalizeTerminalShellAnyPath(rawShell) ==
    IF trim(rawShell) = <<>> THEN DefaultShell
    ELSE IF toLowerCase(lastSegment(trim(rawShell))) = <<"z", "s", "h">> THEN ZshPath
    ELSE IF toLowerCase(lastSegment(trim(rawShell))) = <<"b", "a", "s", "h">> THEN BashPath
    ELSE trim(rawShell)

\* normalizeTerminalShell; an absent rawShell is the empty string
normalizeTerminalShell(rawShell) ==
    IF trim(rawShell) = <<>> THEN DefaultShell
    ELSE IF toLowerCase(lastSegment(trim(rawShell))) = <<"z", "s", "h">> THEN ZshPath
    ELSE IF toLowerCase(lastSegment(trim(rawShell))) = <<"b", "a", "s", "h">> THEN BashPath
    ELSE IF trim(rawShell) = ZshPath \/ trim(rawShell) = BashPath THEN trim(rawShell)
    ELSE DefaultShell

Base64Alphabet ==
    <<"A", "B", "C", "D", "E", "F", "G", "H", "I", "J", "K", "L", "M",
      "N", "O", "P", "Q", "R", "S", "T", "U", "V", "W", "X", "Y", "Z",
      "a", "b", "c", "d", "e", "f", "g", "h", "i", "j", "k", "l", "m",
      "n", "o", "p", "q", "r", "s", "t", "u", "v", "w", "x", "y", "z",
      "0", "1", "2", "3", "4", "5", "6", "7", "8", "9", "+", "/">>

\* the bytes of the 6-bit digits `digits`, most significant first
RECURSIVE base64Bytes(_)
base64Bytes(digits) ==
    IF Len(digits) < 2 THEN <<>>
    ELSE IF Len(digits) = 2
    THEN <<digits[1] * 4 + digits[2] \div 16>>
    ELSE IF Len(digits) = 3
    THEN <<digits[1] * 4 + digits[2] \div 16, (digits[2] % 16) * 16 + digits[3] \div 4>>
    ELSE <<digits[1] * 4 + digits[2] \div 16, (digits[2] % 16) * 16 + digits[3] \div 4,
           (digits[3] % 4) * 64 + digits[4]>> \o base64Bytes(SubSeq(digits, 5, Len(digits)))

\* Buffer.from(dataBase64, 'base64'): characters outside the alphabet are skipped
bufferFromBase64(dataBase64) ==
    LET valid == SelectSeq(dataBase64, LAMBDA c : \E k \in 1..64 : Base64Alphabet[k] = c)
    IN  base64Bytes([i \in 1..Len(valid) |->
                        (CHOOSE k \in 1..64 : Base64Alphabet[k] = valid[i]) - 1])

PtyCall(s, sessionId, op, data) ==
    [s EXCEPT !.ptyLog = Append(@, [sessionId |-> sessionId, op |-> op,
                                    requestId |-> 0, data |-> data, bytes |-> <<>>])]

\* createTerminalSession: the id is taken before the spawn, which may throw
createTerminalSession(s, shell, spawnOk) ==
    LET sessionId == s.nextTerminalSessionId
        taken == [s EXCEPT !.nextTerminalSessionId = @ + 1]
    IN  IF spawnOk
        THEN [s |-> [PtyCall(taken, sessionId, "spawn", normalizeTerminalShell(shell)) EXCEPT
                       !.terminalSessions = @ @@ (sessionId :> [flowPaused |-> FALSE]),
                       !.ptyRunning = @ \cup {sessionId},
                       !.ptyEmitted = @ @@ (sessionId :> 0)],
              ok |-> TRUE, sessionId |-> sessionId]
        ELSE [s |-> taken, ok |-> FALSE, sessionId |-> 0]

writeTerminalSession(s, sessionId, data, requestId) ==
    IF sessionId \notin DOMAIN s.terminalSessions
    THEN [s |-> s, ok |-> FALSE]
    ELSE [s |-> [s EXCEPT !.ptyLog = Append(@, [sessionId |-> sessionId, op |-> "write",
                                                 requestId |-> requestId, data |-> data,
                                                 bytes |-> <<>>])],
          ok |-> TRUE]

\* writeTerminalSessionBinary; dataBase64 is <<>> when the payload holds no string
\* (Buffer.from throws) and <<string>> otherwise
writeTerminalSessionBinary(s, sessionId, dataBase64) ==
    IF sessionId \notin DOMAIN s.terminalSessions
    THEN [s |-> s, ok |-> FALSE]
    ELSE IF dataBase64 = <<>>
    THEN [s |-> s, ok |-> FALSE]
    ELSE IF bufferFromBase64(dataBase64[1]) = <<>>
    THEN [s |-> s, ok |-> TRUE]
    ELSE [s |-> [s EXCEPT !.ptyLog = Append(@, [sessionId |-> sessionId, op |-> "write",
                                                 requestId |-> 0, data |-> <<>>,
                                                 bytes |-> bufferFromBase64(dataBase64[1])])],
          ok |-> TRUE]

\* setTerminalSessionFlowControl calling the pty whatever session.flowPaused is
setTerminalSessionFlowControlAlways(s, sessionId, paused) ==
    IF sessionId \notin DOMAIN s.terminalSessions
    THEN [s |-> s, ok |-> FALSE]
    ELSE [s |-> [PtyCall(s, sessionId, IF paused THEN "pause" ELSE "resume", <<>>) EXCEPT
                   !.terminalSessions[sessionId].flowPaused = paused],
          ok |-> TRUE]

setTerminalSessionFlowControl(s, sessionId, paused) ==
    IF sessionId \notin DOMAIN s.terminalSessions
    THEN [s |-> s, ok |-> FALSE]
    ELSE IF paused /\ ~s.terminalSessions[sessionId].flowPaused
    THEN [s |-> [PtyCall(s, sessionId, "pause", <<>>) EXCEPT
                   !.terminalSessions[sessionId].flowPaused = TRUE],
          ok |-> TRUE]
    ELSE IF ~paused /\ s.terminalSessions[sessionId].flowPaused
    THEN [s |-> [PtyCall(s, sessionId, "resume", <<>>) EXCEPT
                   !.terminalSessions[sessionId].flowPaused = FALSE],
          ok |-> TRUE]
    ELSE [s |-> s, ok |-> TRUE]

\* resizeTerminalSession without the lookup of the session
resizeTerminalSessionUnknownOk(s, sessionId) ==
    [s |-> s, ok |-> TRUE]

resizeTerminalSession(s, sessionId) ==
    IF sessionId \notin DOMAIN s.terminalSessions
    THEN [s |-> s, ok |-> FALSE]
    ELSE [s |-> s, ok |-> TRUE]

RemoveSession(sessions, sessionId) ==
    [id \in DOMAIN sessions \ {sessionId} |-> sessions[id]]

\* closeTerminalSession without terminalSessions.delete(sessionId)
closeTerminalSessionKeepsEntry(s, sessionId) ==
    IF sessionId \notin DOMAIN s.terminalSessions
    THEN [s |-> s, ok |-> FALSE]
    ELSE [s |-> PtyCall(s, sessionId, "kill", <<>>), ok |-> TRUE]

closeTerminalSession(s, sessionId) ==
    IF sessionId \notin DOMAIN s.terminalSessions
    THEN [s |-> s, ok |-> FALSE]
    ELSE [s |-> [PtyCall(s, sessionId, "kill", <<>>) EXCEPT
                   !.terminalSessions = RemoveSession(@, sessionId)],
          ok |-> TRUE]

\* pty.onExit of createTerminalSession
ptyOnExit(s, sessionId, exitCode) ==
    [s EXCEPT !.terminalSessions = RemoveSession(@, sessionId),
              !.ptyRunning = @ \ {sessionId},
              !.toRenderer = Append(@, [type |-> "exit", sessionId |-> sessionId,
                                        code |-> exitCode])]

\* pty.onData of createTerminalSession
ptyOnData(s, sessionId, data) ==
    [s EXCEPT !.toRenderer = Append(@, [type |-> "data", sessionId |-> sessionId,
                                        data |-> data])]

\* pty.onData with `length` characters of plain text, kept by their number
ptyOnText(s, sessionId, length) ==
    [s EXCEPT !.toRenderer = Append(@, [type |-> "text", sessionId |-> sessionId,
                                        length |-> length])]

----------------------------------------------------------------------------
(* lib/globalTerminal.ts: result delivery                                  *)

\* a listener that leaves the request's timer armed
resultListenerKeepsTimer(s, requestId, result) ==
    IF requestId \notin s.pendingExecRequests THEN s
    ELSE [s EXCEPT !.pendingExecRequests = @ \ {requestId},
                   !.promiseResults[requestId] =
                       Append(@, [via |-> "event", requestId |-> requestId, result |-> result])]

\* the listener of the exec-result event
resultListener(s, requestId, result) ==
    IF requestId \notin s.pendingExecRequests THEN s
    ELSE [s EXCEPT !.armedTimers = @ \ {requestId},
                   !.pendingExecRequests = @ \ {requestId},
                   !.promiseResults[requestId] =
                       Append(@, [via |-> "event", requestId |-> requestId, result |-> result])]

----------------------------------------------------------------------------
(* GlobalTerminalPanel: functions of the mount effect                      *)

dispatchExecResult(s, requestId, result) ==
    LET logged == [s EXCEPT !.execResults =
                              Append(@, [requestId |-> requestId, result |-> result])]
    IN  IF s.resultListenerBound THEN resultListener(logged, requestId, result) ELSE logged

RECURSIVE failQueuedExecRequests(_, _)
failQueuedExecRequests(s, message) ==
    IF s.execQueueRef = <<>> THEN s
    ELSE failQueuedExecRequests(
             dispatchExecResult([s EXCEPT !.execQueueRef = Tail(@)],
                                Head(s.execQueueRef).requestId,
                                FailureResult(<<>>, message)),
             message)

\* a failPendingExecRequests that leaves the queue as it is
failPendingExecRequestsActiveOnly(s, message) ==
    IF s.activeExecRef # <<>>
    THEN dispatchExecResult([s EXCEPT !.activeExecRef = <<>>],
                            s.activeExecRef[1].requestId,
                            FailureResult(s.activeExecRef[1].captured, message))
    ELSE IF s.execQueueRef = <<>> THEN s
    ELSE dispatchExecResult([s EXCEPT !.execQueueRef = Tail(@)],
                            Head(s.execQueueRef).requestId,
                            FailureResult(<<>>, message))

failPendingExecRequests(s, message) ==
    LET failedActive ==
            IF s.activeExecRef # <<>>
            THEN dispatchExecResult([s EXCEPT !.activeExecRef = <<>>],
                                    s.activeExecRef[1].requestId,
                                    FailureResult(s.activeExecRef[1].captured, message))
            ELSE s
    IN  failQueuedExecRequests(failedActive, message)

\* setFlowPaused up to its await; the rest is the frame "setFlowPaused"
setFlowPaused(s, paused) ==
    LET sessionId == s.sessionIdRef
    IN  IF sessionId = 0 THEN s
        ELSE IF s.flowPausedRef = paused THEN s
        ELSE LET r == setTerminalSessionFlowControl(s, sessionId, paused)
             IN  Reply(r.s, [fn |-> "setFlowPaused", paused |-> paused], r.ok)

ResumeIfDrained(s) ==
    IF s.flowPausedRef /\ s.pendingBytesRef <= OUTPUT_RESUME_WATERMARK
    THEN setFlowPaused(s, FALSE)
    ELSE s

\* a writeNext that takes the newest chunk of the buffer
writeNextNewest(s) ==
    IF ~s.termRef THEN [s EXCEPT !.pumpingOutputRef = FALSE]
    ELSE IF s.pendingOutputRef = <<>>
    THEN ResumeIfDrained([s EXCEPT !.pumpingOutputRef = FALSE])
    ELSE LET chunk == s.pendingOutputRef[Len(s.pendingOutputRef)]
             left == s.pendingBytesRef - chunk
         IN  [s EXCEPT !.pendingOutputRef = SubSeq(@, 1, Len(@) - 1),
                       !.pendingBytesRef = IF left > 0 THEN left ELSE 0,
                       !.termWritesOutstanding = @ + 1]

\* writeNext of pumpOutput; term.write leaves its callback outstanding
writeNext(s) ==
    IF ~s.termRef THEN [s EXCEPT !.pumpingOutputRef = FALSE]
    ELSE IF s.pendingOutputRef = <<>>
    THEN ResumeIfDrained([s EXCEPT !.pumpingOutputRef = FALSE])
    ELSE LET chunk == Head(s.pendingOutputRef)
             left == s.pendingBytesRef - chunk
         IN  [s EXCEPT !.pendingOutputRef = Tail(@),
                       !.pendingBytesRef = IF left > 0 THEN left ELSE 0,
                       !.termWritesOutstanding = @ + 1]

pumpOutput(s) ==
    IF s.pumpingOutputRef \/ ~s.termRef THEN s
    ELSE writeNext([s EXCEPT !.pumpingOutputRef = TRUE])

\* enqueueOutput of a string of `length` characters
enqueueOutput(s, length) ==
    IF length = 0 THEN s
    ELSE LET pushed == [s EXCEPT !.pendingOutputRef = Append(@, length),
                                 !.pendingBytesRef = @ + length]
             paused == IF ~pushed.flowPausedRef /\ pushed.pendingBytesRef >= OUTPUT_PAUSE_WATERMARK
                       THEN setFlowPaused(pushed, TRUE)
                       ELSE pushed
         IN  pumpOutput(paused)

\* the callback of term.write
termWriteCallback(s) ==
    writeNext(ResumeIfDrained([s EXCEPT !.termWritesOutstanding = @ - 1]))

\* a promise that is already resolved resumes its awaiter in a microtask
ResumeSoon(s, frame) == [s EXCEPT !.microtasks = Append(@, frame)]

getInitialTerminalShell(stored) == IF stored = <<"bash">> THEN "bash" ELSE "zsh"

toShellPath(shell) == IF shell = "bash" THEN BashPath ELSE ZshPath

\* ensureSession without the test of creatingSessionRef
ensureSessionWhileCreating(s, env, caller) ==
    IF s.sessionIdRef # 0
    THEN IF caller = <<>> THEN s ELSE ResumeSoon(s, caller[1])
    ELSE LET r == createTerminalSession(s, toShellPath(s.selectedShellRef), env.spawnOk)
             sent == [r.s EXCEPT !.creatingSessionRef = TRUE, !.ensureCaller = caller]
         IN  [sent EXCEPT !.toRenderer =
                  Append(@, [type |-> "reply", ok |-> r.ok,
                             frame |-> [fn |-> "ensureSession", pc |-> "created",
                                        sessionId |-> r.sessionId]])]

\* ensureSession up to its first await; `caller` is <<>> or the frame that awaits it
ensureSession(s, env, caller) ==
    IF s.sessionIdRef # 0 \/ s.creatingSessionRef
    THEN IF caller = <<>> THEN s ELSE ResumeSoon(s, caller[1])
    ELSE LET r == createTerminalSession(s, toShellPath(s.selectedShellRef), env.spawnOk)
             sent == [r.s EXCEPT !.creatingSessionRef = TRUE, !.ensureCaller = caller]
         IN  [sent EXCEPT !.toRenderer =
                  Append(@, [type |-> "reply", ok |-> r.ok,
                             frame |-> [fn |-> "ensureSession", pc |-> "created",
                                        sessionId |-> r.sessionId]])]

\* the finally block of ensureSession and the resolution of its promise
ensureSessionFinally(s) ==
    LET done == [s EXCEPT !.creatingSessionRef = FALSE, !.ensureCaller = <<>>]
    IN  IF s.ensureCaller = <<>> THEN done ELSE ResumeSoon(done, s.ensureCaller[1])

\* ensureSession after createTerminalSession answered, up to await syncPtySize()
ensureSessionCreated(s, env, frame, ok) ==
    IF ok
    THEN LET set == [s EXCEPT !.sessionIdRef = frame.sessionId,
                              !.sessionJustStartedRef = TRUE,
                              !.userInteractedRef = FALSE,
                              !.flowPausedRef = FALSE]
         IN  IF env.hasDims
             THEN LET r == resizeTerminalSession(set, set.sessionIdRef)
                  IN  Reply(r.s, [fn |-> "ensureSession", pc |-> "resized"], r.ok)
             ELSE ResumeSoon(set, [fn |-> "ensureSession", pc |-> "resized"])
    ELSE ensureSessionFinally(enqueueOutput(s, SpawnErrorNoticeLength))

----------------------------------------------------------------------------
(* The exec wrapper                                                        *)

\* "printf '%s\\n' '"
PrintfBeginInvocation ==
    <<"p", "r", "i", "n", "t", "f", " ", "'", "%", "s", "\\", "n", "'", " ", "'">>

\* "' \"$__apppad_exec_code\" '__'\n"
PrintfDoneArguments ==
    <<"'", " ", "\"", "$", "_", "_", "a", "p", "p", "p", "a", "d", "_", "e", "x", "e", "c",
      "_", "c", "o", "d", "e", "\"", " ", "'", "_", "_", "'", "\n">>

buildExecWrapper(command, beginMarker, doneMarker) ==
    LET normalizedCommand == IF endsWith(command, <<"\n">>) THEN command
                             ELSE command \o <<"\n">>
    IN  PrintfBeginInvocation \o beginMarker \o <<"'", "\n">>
        \o normalizedCommand
        \o ExecCodeAssignment \o <<"\n">>
        \o PrintfDoneInvocation \o <<" ", "'">> \o doneMarker \o PrintfDoneArguments

----------------------------------------------------------------------------
(* Dispatch                                                                *)

\* startNextExec up to await ensureSession()
startNextExec(s, env) ==
    IF s.activeExecRef # <<>> THEN s
    ELSE IF s.execQueueRef = <<>> THEN s
    ELSE ensureSession(s, env, <<[fn |-> "startNextExec", pc |-> "ensured"]>>)

\* startNextExec from the return of ensureSession up to await writeTerminalSession
startNextExecEnsured(s) ==
    LET sessionId == s.sessionIdRef
    IN  IF sessionId = 0
        THEN failPendingExecRequests(s, "Unable to create terminal session.")
        ELSE IF s.execQueueRef = <<>> THEN s
        ELSE LET next == Head(s.execQueueRef)
                 active == NewActiveExec(next.requestId)
                 wrapper == buildExecWrapper(next.command, active.beginMarker, active.doneMarker)
                 shifted == [s EXCEPT !.execQueueRef = Tail(@), !.activeExecRef = <<active>>]
                 r == writeTerminalSession(shifted, sessionId, wrapper, next.requestId)
             IN  Reply(r.s, [fn |-> "startNextExec", pc |-> "written",
                             requestId |-> next.requestId], r.ok)

\* a startNextExec that reports the failed write and stops there
startNextExecWrittenStops(s, env, frame, ok) ==
    IF ok THEN s
    ELSE dispatchExecResult([s EXCEPT !.activeExecRef = <<>>], frame.requestId,
                            FailureResult(<<>>, "Failed to write command to terminal session."))

\* startNextExec after writeTerminalSession answered
startNextExecWritten(s, env, frame, ok) ==
    IF ok THEN s
    ELSE startNextExec(
             dispatchExecResult([s EXCEPT !.activeExecRef = <<>>], frame.requestId,
                                FailureResult(<<>>, "Failed to write command to terminal session.")),
             env)

----------------------------------------------------------------------------
(* Shell switch                                                            *)

\* recreateSession from the answer of closeTerminalSession on
recreateSessionClosed(s, env) ==
    ensureSession([s EXCEPT !.sessionIdRef = 0, !.flowPausedRef = FALSE,
                            !.suppressNextExitRef = FALSE],
                  env, <<[fn |-> "recreateSession", pc |-> "ensured"]>>)

\* recreateSession after its optional resume: closeTerminalSession(sessionIdRef.current)
recreateSessionClose(s) ==
    LET r == closeTerminalSession(s, s.sessionIdRef)
    IN  Reply(r.s, [fn |-> "recreateSession", pc |-> "closed"], r.ok)

\* recreateSession up to its first await
recreateSession(s, env) ==
    IF s.sessionIdRef # 0
    THEN LET flagged == [s EXCEPT !.suppressNextExitRef = TRUE]
         IN  IF flagged.flowPausedRef
             THEN LET r == setTerminalSessionFlowControl(flagged, flagged.sessionIdRef, FALSE)
                  IN  Reply(r.s, [fn |-> "recreateSession", pc |-> "resumed"], r.ok)
             ELSE recreateSessionClose(flagged)
    ELSE ensureSession(s, env, <<[fn |-> "recreateSession", pc |-> "ensured"]>>)

----------------------------------------------------------------------------
(* Continuations: a suspended async function goes on from its await        *)

Continue(s, env, frame, ok) ==
    CASE frame.fn = "startNextExec" /\ frame.pc = "ensured" -> startNextExecEnsured(s)
      [] frame.fn = "startNextExec" /\ frame.pc = "written" -> startNextExecWritten(s, env, frame, ok)
      [] frame.fn = "ensureSession" /\ frame.pc = "created" -> ensureSessionCreated(s, env, frame, ok)
      [] frame.fn = "ensureSession" /\ frame.pc = "resized" -> ensureSessionFinally(s)
      [] frame.fn = "setFlowPaused" ->
             IF ok THEN [s EXCEPT !.flowPausedRef = frame.paused] ELSE s
      [] frame.fn = "recreateSession" /\ frame.pc = "resumed" -> recreateSessionClose(s)
      [] frame.fn = "recreateSession" /\ frame.pc = "closed" -> recreateSessionClosed(s, env)
      [] frame.fn = "recreateSession" /\ frame.pc = "ensured" -> s

----------------------------------------------------------------------------
(* Prompt noise on the way to the display                                  *)

\* the last line break of the white space after the "%" at index k, 0 for no "%" or no break
promptEndAfter(output, k) ==
    LET after == {j \in k..Len(output) : \A i \in (k + 1)..j : IsSpace(output[i])}
        breaks == {i \in (k + 1)..Max(after) : output[i] = "\n"}
    IN  IF output[k] # "%" \/ breaks = {} THEN 0 ELSE Max(breaks)

\* length of the match of /^(?:\r?\n)*\s*%\s*(\r?\n)/ at the start of output, 0 for none
leadingPromptLength(output) ==
    LET nonSpace == {k \in 1..Len(output) : ~IsSpace(output[k])}
    IN  IF nonSpace = {} THEN 0 ELSE promptEndAfter(output, Min(nonSpace))

\* the replace of a leading prompt line, of the length given, that ends both strips
stripLeadingPrompt(flag, output, length) ==
    IF length > 0
    THEN [flag |-> FALSE, output |-> sliceFrom(output, length)]
    ELSE [flag |-> flag /\ trimIsEmpty(output), output |-> output]

stripPostExecPromptNoise(suppressNextPrompt, output) ==
    IF ~suppressNextPrompt \/ output = <<>>
    THEN [flag |-> suppressNextPrompt, output |-> output]
    ELSE IF IsBarePercent(output) \/ IsBareTildeQuote(output)
    THEN [flag |-> FALSE, output |-> <<>>]
    ELSE stripLeadingPrompt(suppressNextPrompt, output, leadingPromptLength(output))

stripInitialPromptNoise(sessionJustStarted, userInteracted, output) ==
    IF output = <<>> \/ ~sessionJustStarted \/ userInteracted
    THEN [flag |-> sessionJustStarted, output |-> output]
    ELSE IF IsBarePercent(output)
    THEN [flag |-> sessionJustStarted, output |-> <<>>]
    ELSE stripLeadingPrompt(sessionJustStarted, output, leadingPromptLength(output))

----------------------------------------------------------------------------
(* Event handlers of the panel                                             *)

\* onTerminalData from the stripped output on: the visible text goes to the display
showOutput(next, visible) ==
    LET p == stripPostExecPromptNoise(next.suppressNextPromptRef, visible)
        q == stripInitialPromptNoise(next.sessionJustStartedRef, next.userInteractedRef,
                                     p.output)
    IN  enqueueOutput([next EXCEPT !.suppressNextPromptRef = p.flag,
                                   !.sessionJustStartedRef = q.flag],
                      Len(q.output))

\* an onTerminalData whose processExecOutput leaves the queue alone after a done marker
onExecOutputStops(s, env, r) ==
    LET parsed == [s EXCEPT !.activeExecRef = r.active]
        resolved == IF r.results = <<>> THEN parsed
                    ELSE dispatchExecResult(parsed, r.results[1].requestId,
                                            r.results[1].result)
    IN  showOutput(IF r.done
                   THEN [resolved EXCEPT !.suppressNextPromptRef = TRUE]
                   ELSE resolved,
                   r.visible)

\* onTerminalData with r, the outcome of processExecOutput
onExecOutput(s, env, r) ==
    LET parsed == [s EXCEPT !.activeExecRef = r.active]
        resolved == IF r.results = <<>> THEN parsed
                    ELSE dispatchExecResult(parsed, r.results[1].requestId,
                                            r.results[1].result)
    IN  showOutput(IF r.done
                   THEN startNextExec([resolved EXCEPT !.suppressNextPromptRef = TRUE], env)
                   ELSE resolved,
                   r.visible)

onTerminalData(s, env, sessionId, data) ==
    IF sessionId # s.sessionIdRef \/ ~s.termRef THEN s
    ELSE onExecOutput(s, env, processExecOutput(s.activeExecRef, data))

\* an exit listener without the test of the session id
onTerminalExitAnySession(s, sessionId, code) ==
    IF ~s.termRef THEN s
    ELSE LET gone == [s EXCEPT !.sessionIdRef = 0, !.flowPausedRef = FALSE]
         IN  IF s.suppressNextExitRef
             THEN [gone EXCEPT !.suppressNextExitRef = FALSE]
             ELSE enqueueOutput(
                      failPendingExecRequests(
                          gone, "Terminal session exited (" \o ToString(code) \o ")."),
                      ExitNoticeFixedLength + Len(intToString(code)))

onTerminalExit(s, sessionId, code) ==
    IF sessionId # s.sessionIdRef \/ ~s.termRef THEN s
    ELSE LET gone == [s EXCEPT !.sessionIdRef = 0, !.flowPausedRef = FALSE]
         IN  IF s.suppressNextExitRef
             THEN [gone EXCEPT !.suppressNextExitRef = FALSE]
             ELSE enqueueOutput(
                      failPendingExecRequests(
                          gone, "Terminal session exited (" \o ToString(code) \o ")."),
                      ExitNoticeFixedLength + Len(intToString(code)))

\* onTerminalData for `length` characters of plain text while no request is active:
\* processExecOutput returns the data as it is, and text that is no prompt filler
\* ends both prompt suppressions and goes to the display whole
onTerminalText(s, sessionId, length) ==
    IF sessionId # s.sessionIdRef \/ ~s.termRef THEN s
    ELSE enqueueOutput([s EXCEPT !.suppressNextPromptRef = FALSE,
                                 !.sessionJustStartedRef = FALSE],
                       length)

execHandler(s, env, payload) ==
    startNextExec([s EXCEPT !.execQueueRef = Append(@, payload)], env)

----------------------------------------------------------------------------
(* lib/globalTerminal.ts: requests                                         *)

\* window.dispatchEvent of the exec event runs the panel's execHandler, which is
\* registered from the mount effect to its cleanup
dispatchExecRequest(s, env, payload) ==
    IF s.termRef THEN execHandler(s, env, payload) ELSE s

RECURSIVE flushEntries(_, _, _)
flushEntries(s, env, entries) ==
    IF entries = <<>> THEN s
    ELSE LET payload == Head(entries)
             removed == [s EXCEPT !.queuedExecDispatches =
                             SelectSeq(@, LAMBDA e : e.requestId # payload.requestId)]
         IN  IF payload.requestId \notin s.pendingExecRequests
             THEN flushEntries(removed, env, Tail(entries))
             ELSE flushEntries(
                      [dispatchExecRequest(s, env, payload) EXCEPT !.queuedExecDispatches =
                           SelectSeq(@, LAMBDA e : e.requestId # payload.requestId)],
                      env, Tail(entries))

Reverse(seq) == [i \in 1..Len(seq) |-> seq[Len(seq) + 1 - i]]

\* a flush that walks the held requests from the newest to the oldest
flushQueuedExecDispatchesReversed(s, env) ==
    IF ~s.terminalReady \/ s.queuedExecDispatches = <<>> THEN s
    ELSE flushEntries(s, env, Reverse(s.queuedExecDispatches))

flushQueuedExecDispatches(s, env) ==
    IF ~s.terminalReady \/ s.queuedExecDispatches = <<>> THEN s
    ELSE flushEntries(s, env, s.queuedExecDispatches)

readyListener(s, env) ==
    flushQueuedExecDispatches([s EXCEPT !.terminalReady = TRUE], env)

disposedListener(s) == [s EXCEPT !.terminalReady = FALSE]

executeWithGlobalTerminal(s, env, command) ==
    LET requestId == s.nextExecRequestId
        armed == [s EXCEPT !.resultListenerBound = TRUE,
                           !.terminalStateListenerBound = TRUE,
                           !.nextExecRequestId = @ + 1,
                           !.armedTimers = @ \cup {requestId},
                           !.pendingExecRequests = @ \cup {requestId}]
        payload == [requestId |-> requestId, command |-> command]
    IN  IF armed.terminalReady
        THEN dispatchExecRequest(armed, env, payload)
        ELSE [armed EXCEPT !.queuedExecDispatches = Append(@, payload)]

TimeoutResult ==
    FailureResult(<<>>, "Timed out after " \o ToString(TimeoutSeconds)
                        \o "s waiting for terminal command completion.")

\* a timeout that drops every held request
timeoutCallbackClearsQueue(s, requestId) ==
    [s EXCEPT !.armedTimers = @ \ {requestId},
              !.pendingExecRequests = @ \ {requestId},
              !.queuedExecDispatches = <<>>,
              !.promiseResults[requestId] =
                  Append(@, [via |-> "timeout", requestId |-> requestId,
                             result |-> TimeoutResult])]

\* the callback of the request's window.setTimeout
timeoutCallback(s, requestId) ==
    [s EXCEPT !.armedTimers = @ \ {requestId},
              !.pendingExecRequests = @ \ {requestId},
              !.queuedExecDispatches = SelectSeq(@, LAMBDA e : e.requestId # requestId),
              !.promiseResults[requestId] =
                  Append(@, [via |-> "timeout", requestId |-> requestId,
                             result |-> TimeoutResult])]

----------------------------------------------------------------------------
(* IPC towards the renderer: the preload's listeners hand a terminal:data  *)
(* or terminal:exit message to the panel's handler; the answer of an       *)
(* invoke resumes the function that awaits it                              *)

ipcDeliver(s, env) ==
    LET msg == Head(s.toRenderer)
        taken == [s EXCEPT !.toRenderer = Tail(@)]
    IN  CASE msg.type = "data" -> onTerminalData(taken, env, msg.sessionId, msg.data)
          [] msg.type = "text" -> onTerminalText(taken, msg.sessionId, msg.length)
          [] msg.type = "exit" -> onTerminalExit(taken, msg.sessionId, msg.code)
          [] msg.type = "reply" -> Continue(taken, env, msg.frame, msg.ok)

\* the renderer runs until no microtask and no IPC message is left
RECURSIVE Settle(_, _)
Settle(s, env) ==
    IF s.microtasks # <<>>
    THEN Settle(Continue([s EXCEPT !.microtasks = Tail(@)], env, Head(s.microtasks), TRUE), env)
    ELSE IF s.toRenderer # <<>>
    THEN Settle(ipcDeliver(s, env), env)
    ELSE s

\* the term.onData listener starting a session on any keystroke
termOnDataAnyKey(s, env, data) ==
    LET typed == IF Len(data) > 0
                 THEN [s EXCEPT !.userInteractedRef = TRUE, !.sessionJustStartedRef = FALSE]
                 ELSE s
    IN  IF typed.sessionIdRef = 0
        THEN ensureSession(typed, env, <<>>)
        ELSE writeTerminalSession(typed, typed.sessionIdRef, data, 0).s

\* the term.onData listener: what the user typed.  Without a session only Enter does
\* something (the blank line it writes to the display is not kept); with a session the
\* data goes to the pty and the answer of the write is ignored
termOnData(s, env, data) ==
    LET typed == IF Len(data) > 0
                 THEN [s EXCEPT !.userInteractedRef = TRUE, !.sessionJustStartedRef = FALSE]
                 ELSE s
    IN  IF typed.sessionIdRef = 0
        THEN IF data = <<"\r">> THEN ensureSession(typed, env, <<>>) ELSE typed
        ELSE writeTerminalSession(typed, typed.sessionIdRef, data, 0).s

\* switchTerminalShell: recreateSession starts before the effect of the render that
\* follows stores the new choice in selectedShellRef
switchTerminalShell(s, env, shell) ==
    IF shell = s.selectedShellRef THEN s
    ELSE [recreateSession(s, env) EXCEPT !.selectedShellRef = shell]

\* a cleanup that closes the session and leaves the requests and the display buffer
unmountKeepsRequests(s) ==
    LET sessionId == s.sessionIdRef
        resumed == IF s.flowPausedRef
                   THEN setTerminalSessionFlowControl(s, sessionId, FALSE).s
                   ELSE s
        closed == IF sessionId # 0
                  THEN [closeTerminalSession(resumed, sessionId).s EXCEPT !.sessionIdRef = 0]
                  ELSE s
    IN  [closed EXCEPT !.flowPausedRef = FALSE,
                       !.pumpingOutputRef = FALSE,
                       !.termRef = FALSE]

\* the cleanup of the mount effect; nobody awaits the answers of its two requests
unmount(s) ==
    LET failed == failPendingExecRequests(
                      s, "Terminal panel was disposed before command completion.")
        sessionId == failed.sessionIdRef
        resumed == IF failed.flowPausedRef
                   THEN setTerminalSessionFlowControl(failed, sessionId, FALSE).s
                   ELSE failed
        closed == IF sessionId # 0
                  THEN [closeTerminalSession(resumed, sessionId).s EXCEPT !.sessionIdRef = 0]
                  ELSE failed
    IN  [closed EXCEPT !.flowPausedRef = FALSE,
                       !.pumpingOutputRef = FALSE,
                       !.pendingOutputRef = <<>>,
                       !.pendingBytesRef = 0,
                       !.termRef = FALSE]

----------------------------------------------------------------------------
(* Environment                                                             *)

\* what a handler finds when it asks: whether a spawn succeeds (the last session id
\* the model allows is spawned successfully), whether the fit addon proposes dimensions
Envs(s) ==
    {e \in [spawnOk : BOOLEAN, hasDims : BOOLEAN] :
        e.spawnOk \/ s.nextTerminalSessionId < MaxSessions}

Commands == {<<"l", "s">>}

CommandExitCodes == {0, 7}

PtyExitCodes == {1}

\* the wrappers a session's shell has received, in order
WrappersOf(s, sessionId) ==
    SelectSeq(s.ptyLog, LAMBDA e : e.sessionId = sessionId /\ e.op = "write" /\ e.requestId # 0)

\* what the shell prints for a wrapper: the begin marker line, then the done marker line
ShellLine(requestId, part, code) ==
    IF part = 0
    THEN BeginMarkerOf(RequestIdString(requestId)) \o <<"\r", "\n">>
    ELSE DoneMarkerOf(RequestIdString(requestId)) \o intToString(code) \o <<"_", "_", "\r", "\n">>

----------------------------------------------------------------------------
(* Actions.  A task of the renderer starts only when no microtask is left. *)

Idle == microtasks = <<>>

ExecuteWithGlobalTerminal ==
    /\ Idle
    /\ nextExecRequestId <= MaxRequests
    /\ \E command \in Commands : \E env \in Envs(St) :
           Commit(executeWithGlobalTerminal(St, env, command))
    /\ UNCHANGED envVars

ReadyEvent ==
    /\ Idle
    /\ terminalStateListenerBound
    /\ ~terminalReady
    /\ \E env \in Envs(St) : Commit(readyListener(St, env))
    /\ UNCHANGED envVars

DisposedEvent ==
    /\ Idle
    /\ terminalStateListenerBound
    /\ terminalReady
    /\ Commit(disposedListener(St))
    /\ UNCHANGED envVars

Timeout ==
    /\ Idle
    /\ \E requestId \in armedTimers : Commit(timeoutCallback(St, requestId))
    /\ UNCHANGED envVars

\* the renderer takes the next IPC message of the main process
Deliver ==
    /\ Idle
    /\ toRenderer # <<>>
    /\ \E env \in Envs(St) : Commit(ipcDeliver(St, env))
    /\ UNCHANGED envVars

RunMicrotask ==
    /\ microtasks # <<>>
    /\ \E env \in Envs(St) :
           Commit(Continue([St EXCEPT !.microtasks = Tail(@)], env, Head(microtasks), TRUE))
    /\ UNCHANGED envVars

TermWriteDone ==
    /\ Idle
    /\ termWritesOutstanding > 0
    /\ Commit(termWriteCallback(St))
    /\ UNCHANGED envVars

\* the shell of a live, unpaused session prints the next line for its wrappers
PtyOutput ==
    /\ Idle
    /\ \E sessionId \in DOMAIN terminalSessions :
           LET emitted == ptyEmitted[sessionId]
               wrappers == WrappersOf(St, sessionId)
           IN  /\ ~terminalSessions[sessionId].flowPaused
               /\ emitted \div 2 + 1 <= Len(wrappers)
               /\ \E code \in CommandExitCodes :
                      Commit(ptyOnData([St EXCEPT !.ptyEmitted[sessionId] = @ + 1], sessionId,
                                       ShellLine(wrappers[emitted \div 2 + 1].requestId,
                                                 emitted % 2, code)))
    /\ UNCHANGED envVars

\* a pty ends: killed by closeTerminalSession, or by itself while the model has a
\* session id left for its successor
PtyExit ==
    /\ Idle
    /\ \E sessionId \in ptyRunning :
           /\ sessionId \in DOMAIN terminalSessions => nextTerminalSessionId <= MaxSessions
           /\ \E code \in PtyExitCodes : Commit(ptyOnExit(St, sessionId, code))
    /\ UNCHANGED envVars

\* what the user types in one go
Keystrokes == {<<"\r">>, <<"x">>}

\* the keystrokes that reached a pty
TypedIntoPty == {i \in 1..Len(ptyLog) : ptyLog[i].op = "write" /\ ptyLog[i].requestId = 0}

Keystroke ==
    /\ Idle
    /\ termRef
    /\ sessionIdRef # 0 => Cardinality(TypedIntoPty) < MaxKeystrokes
    /\ sessionIdRef = 0 => nextTerminalSessionId <= MaxSessions
    /\ \E data \in Keystrokes : \E env \in Envs(St) : Commit(termOnData(St, env, data))
    /\ UNCHANGED envVars

\* React unmounts the panel and runs the cleanup of the mount effect
Unmount ==
    /\ Idle
    /\ termRef
    /\ Commit(unmount(St))
    /\ UNCHANGED envVars

\* switchTerminalShell to the other shell
SwitchShell ==
    /\ Idle
    /\ termRef
    /\ nextTerminalSessionId <= MaxSessions
    /\ shellSwitches < MaxSwitches
    /\ shellSwitches' = shellSwitches + 1
    /\ \E env \in Envs(St) :
           Commit(switchTerminalShell(St, env, IF selectedShellRef = "zsh" THEN "bash" ELSE "zsh"))
    /\ UNCHANGED feedVars

----------------------------------------------------------------------------
(* Spec: the panel right after its mount effect, which called              *)
(* ensureSession(); the library has not been used yet                      *)

Blank ==
    [nextExecRequestId |-> 1,
     resultListenerBound |-> FALSE,
     terminalStateListenerBound |-> FALSE,
     terminalReady |-> FALSE,
     queuedExecDispatches |-> <<>>,
     pendingExecRequests |-> {},
     armedTimers |-> {},
     promiseResults |-> [r \in 1..MaxRequests |-> <<>>],
     sessionIdRef |-> 0,
     suppressNextExitRef |-> FALSE,
     creatingSessionRef |-> FALSE,
     pumpingOutputRef |-> FALSE,
     flowPausedRef |-> FALSE,
     pendingOutputRef |-> <<>>,
     pendingBytesRef |-> 0,
     execQueueRef |-> <<>>,
     activeExecRef |-> <<>>,
     suppressNextPromptRef |-> FALSE,
     sessionJustStartedRef |-> FALSE,
     userInteractedRef |-> FALSE,
     selectedShellRef |-> getInitialTerminalShell(<<>>),
     termRef |-> TRUE,
     microtasks |-> <<>>,
     ensureCaller |-> <<>>,
     termWritesOutstanding |-> 0,
     terminalSessions |-> <<>>,
     nextTerminalSessionId |-> 1,
     ptyRunning |-> {},
     ptyLog |-> <<>>,
     ptyEmitted |-> <<>>,
     toRenderer |-> <<>>,
     execResults |-> <<>>]

NoFeed ==
    /\ stream = <<>>
    /\ fedPos = 0
    /\ cmdOut = <<>>
    /\ cmdCode = 0
    /\ chunksFed = 0

Init ==
    /\ \E env \in Envs(Blank) : StateIs(ensureSession(Blank, env, <<>>))
    /\ NoFeed
    /\ shellSwitches = 0

Next ==
    \/ ExecuteWithGlobalTerminal
    \/ ReadyEvent
    \/ DisposedEvent
    \/ Timeout
    \/ Deliver
    \/ RunMicrotask
    \/ TermWriteDone
    \/ PtyOutput
    \/ PtyExit
    \/ SwitchShell

Spec == Init /\ [][Next]_vars

----------------------------------------------------------------------------
(* SpecCodec: one request is active in a live session and the session's    *)
(* output for it arrives split into chunks at arbitrary offsets            *)

MaxChunkCount == 2

RECURSIVE Flatten(_)
Flatten(lines) == IF lines = <<>> THEN <<>> ELSE Head(lines) \o Flatten(Tail(lines))

\* the panel after its mount, the first call of executeWithGlobalTerminal and the
\* terminal-ready event, with every answer of the main process taken
CodecStart ==
    LET env == [spawnOk |-> TRUE, hasDims |-> TRUE]
        mounted == Settle(ensureSession(Blank, env, <<>>), env)
        requested == executeWithGlobalTerminal(mounted, env, <<"l", "s">>)
    IN  Settle(readyListener(requested, env), env)

\* the tty's echo of the wrapper's first line
BeginEcho == PrintfBeginInvocation \o BeginMarkerOf(RequestIdString(1)) \o <<"'", "\n">>

PreEchoes == {<<>>, BeginEcho}

\* command outputs, line by line; the last line may lack its newline
CodecOutputs ==
    {<<>>,
     << <<"h", "i", "\n">> >>,
     << <<"h", "i">> >>,
     << <<"a", "\n">>, <<"\n">>, <<"b">> >>}

CodecExitCodes == {0, 3, 12}

\* what the session prints for the request: echo, begin marker line, output, done marker line
SessionOutput(echo, out, code) ==
    echo \o BeginMarkerOf(RequestIdString(1)) \o <<"\n">>
         \o Flatten(out)
         \o DoneMarkerOf(RequestIdString(1)) \o intToString(code) \o <<"_", "_", "\n">>

CodecInit ==
    /\ StateIs(CodecStart)
    /\ cmdOut \in CodecOutputs
    /\ cmdCode \in CodecExitCodes
    /\ \E echo \in PreEchoes : stream = SessionOutput(echo, cmdOut, cmdCode)
    /\ fedPos = 0
    /\ chunksFed = 0
    /\ shellSwitches = 0

\* the pty hands the next piece of the output to its onData listener; the renderer
\* handles the pieces in the order sent, so one is sent when the last one was taken
CodecFeed ==
    /\ Idle
    /\ toRenderer = <<>>
    /\ fedPos < Len(stream)
    /\ \E k \in 1..(Len(stream) - fedPos) :
           /\ Commit(ptyOnData(St, 1, SubSeq(stream, fedPos + 1, fedPos + k)))
           /\ fedPos' = fedPos + k
    /\ chunksFed' = IF chunksFed < MaxChunkCount THEN chunksFed + 1 ELSE chunksFed
    /\ UNCHANGED <<stream, cmdOut, cmdCode, shellSwitches>>

CodecNext ==
    \/ CodecFeed
    \/ Deliver
    \/ TermWriteDone

SpecCodec == CodecInit /\ [][CodecNext]_vars

\* the whole output was sent and handled
FedAll == fedPos = Len(stream) /\ toRenderer = <<>>

\* what a caller reads of results: success, exit code, stdout
Outcomes(results) ==
    [i \in 1..Len(results) |->
        [requestId |-> results[i].requestId,
         success |-> results[i].result.success,
         code |-> results[i].result.code,
         stdout |-> results[i].result.stdout]]

----------------------------------------------------------------------------
(* Codec properties                                                        *)

\* C1: chunk-boundary invariance: once the whole session output was fed, however it
\* was split into chunks, the results dispatched (success, exit code, stdout) equal
\* those of feeding the same output as one single chunk
C1_ChunkBoundaryInvariance ==
    FedAll =>
        Outcomes(execResults)
            = Outcomes(processExecOutput(CodecStart.activeExecRef, stream).results)

\* C2: round trip: the session output echo, begin marker line, S, done marker with E
\* and "__", fed as one chunk, resolves the request with success = (E = 0), code = E
\* and stdout = S, whether or not S ends with a newline
C2_RoundTrip ==
    (FedAll /\ chunksFed = 1) =>
        Outcomes(execResults)
            = <<[requestId |-> 1, success |-> (cmdCode = 0), code |-> <<cmdCode>>,
                 stdout |-> Flatten(cmdOut)]>>

ExitCodeMessage(code) == "Command exited with code " \o ToString(code) \o "."

\* the results that were produced by a matched done marker carry an exit code
DoneMarkerResults ==
    {execResults[i].result : i \in {j \in 1..Len(execResults) : execResults[j].result.code # <<>>}}

\* C8 (as stated): every result produced when a done marker is matched has an empty
\* stderr, for zero and non-zero exit codes alike, and on a non-zero exit code the
\* error field carries the description of the exit code
C8_StderrAlwaysEmpty ==
    \A r \in DoneMarkerResults :
        /\ r.stderr = ""
        /\ r.code # <<0>> => r.error = <<ExitCodeMessage(r.code[1])>>

\* C8 (amended): a result produced when a done marker is matched has an empty stderr
\* and no error on exit code 0; on a non-zero exit code both stderr and the error
\* field carry the description of the exit code
C8_StderrCarriesExitMessage ==
    \A r \in DoneMarkerResults :
        IF r.code = <<0>>
        THEN r.success /\ r.stderr = "" /\ r.error = <<>>
        ELSE /\ ~r.success
             /\ r.stderr = ExitCodeMessage(r.code[1])
             /\ r.error = <<ExitCodeMessage(r.code[1])>>

\* a done marker with a non-zero exit code was matched
C8_NonZeroExitResolved ==
    \E r \in DoneMarkerResults : r.code # <<0>> /\ r.stdout # <<>>

----------------------------------------------------------------------------
(* SpecCapture: the begin marker line of the active request was received;  *)
(* the command's output, made of whole lines, and the done marker line     *)
(* arrive split into chunks at arbitrary offsets                           *)

MaxLines == 2

\* lines of command output that are no protocol text
PlainLines == {<<"a", "\n">>, <<"b", "\n">>, <<"\n">>}

\* lines identical to the wrapper's marker text or exit-code assignment text
ProtocolLines ==
    {BeginMarkerOf(RequestIdString(1)) \o <<"\n">>,
     DoneMarkerOf(RequestIdString(1)) \o <<"\n">>,
     ExecCodeAssignment \o <<"\n">>}

CaptureOutputs == UNION {[1..n -> PlainLines \cup ProtocolLines] : n \in 0..MaxLines}

CaptureStart ==
    Settle(ptyOnData(CodecStart, 1, BeginMarkerOf(RequestIdString(1)) \o <<"\n">>),
           [spawnOk |-> TRUE, hasDims |-> TRUE])

CaptureInit ==
    /\ StateIs(CaptureStart)
    /\ cmdOut \in CaptureOutputs
    /\ cmdCode = 0
    /\ stream = Flatten(cmdOut) \o DoneMarkerOf(RequestIdString(1)) \o intToString(cmdCode)
                    \o <<"_", "_", "\n">>
    /\ fedPos = 0
    /\ chunksFed = 0
    /\ shellSwitches = 0

SpecCapture == CaptureInit /\ [][CodecNext]_vars

\* the output without its protocol lines, the other lines unchanged and in order
PlainOutput == Flatten(SelectSeq(cmdOut, LAMBDA line : line \notin ProtocolLines))

\* C9: noise-only filtering: the stdout of the result equals the command output with
\* exactly the lines identical to marker text or assignment text removed; every other
\* line, blank lines included, is kept unchanged and in order
C9_NoiseOnlyFiltering ==
    \A i \in 1..Len(execResults) :
        /\ execResults[i].result.code = <<cmdCode>>
        /\ execResults[i].result.stdout = PlainOutput

\* output with a protocol line and a blank line, fed in several chunks, was captured
C9_MixedOutputCaptured ==
    /\ execResults # <<>>
    /\ chunksFed > 1
    /\ Len(cmdOut) > 1
    /\ \E i \in 1..Len(cmdOut) : cmdOut[i] \in ProtocolLines
    /\ \E i \in 1..Len(cmdOut) : cmdOut[i] = <<"\n">>

----------------------------------------------------------------------------
(* Queue and lifecycle properties (Spec)                                   *)

\* the panel dispatched a result for the request
PanelResolved(requestId) ==
    \E i \in 1..Len(execResults) : execResults[i].requestId = requestId

\* requests whose wrapper was written to the session and that have no result yet
InFlight(sessionId) ==
    {r \in 1..MaxRequests :
        /\ \E i \in 1..Len(ptyLog) :
               /\ ptyLog[i].op = "write"
               /\ ptyLog[i].sessionId = sessionId
               /\ ptyLog[i].requestId = r
        /\ ~PanelResolved(r)}

\* C3: at most one wrapped command is in flight per session: no session has received
\* the wrappers of two requests that are both still unresolved
C3_AtMostOneInFlight ==
    \A sessionId \in 1..MaxSessions : Cardinality(InFlight(sessionId)) <= 1

\* the request was failed: by the panel, or by its timeout
Failed(requestId) ==
    \/ \E i \in 1..Len(execResults) :
           execResults[i].requestId = requestId /\ ~execResults[i].result.success
    \/ \E i \in 1..Len(promiseResults[requestId]) :
           ~promiseResults[requestId][i].result.success

WrittenBefore(log, requestId, j) ==
    \E i \in 1..(j - 1) : log[i].op = "write" /\ log[i].requestId = requestId

\* C4: FIFO dispatch: whenever the wrapper of a request B is written, every request A
\* submitted before B has had its wrapper written earlier or has been failed
C4_FifoDispatch ==
    [][\A j \in (Len(ptyLog) + 1)..Len(ptyLog') :
           (ptyLog'[j].op = "write" /\ ptyLog'[j].requestId # 0) =>
               \A A \in 1..(ptyLog'[j].requestId - 1) :
                   WrittenBefore(ptyLog', A, j) \/ Failed(A)']_vars

\* the wrappers of two requests were written, the second one after the ready event
\* flushed it or after it was sent to the panel directly
C4_TwoDispatched ==
    \E i \in 1..Len(ptyLog) : \E j \in (i + 1)..Len(ptyLog) :
        /\ ptyLog[i].op = "write" /\ ptyLog[i].requestId = 1
        /\ ptyLog[j].op = "write" /\ ptyLog[j].requestId = 2

\* the panel is about to handle the exit of its current session
ExitOfCurrentSessionNext ==
    /\ Idle
    /\ toRenderer # <<>>
    /\ Head(toRenderer).type = "exit"
    /\ Head(toRenderer).sessionId = sessionIdRef

ExitFailure(requestId, code) ==
    \E i \in 1..Len(execResults') :
        /\ execResults'[i].requestId = requestId
        /\ ~execResults'[i].result.success
        /\ execResults'[i].result.code = <<>>
        /\ execResults'[i].result.error
               = <<"Terminal session exited (" \o ToString(code) \o ").">>

\* C5: exit propagation: when the panel handles the exit of its current session, the
\* active request and every queued request get a failure result naming the exit, the
\* ActiveExec is cleared and the queue is empty afterwards
C5_ExitPropagation ==
    [][(ExitOfCurrentSessionNext /\ toRenderer' = Tail(toRenderer)) =>
           /\ activeExecRef' = <<>>
           /\ execQueueRef' = <<>>
           /\ \A i \in 1..Len(activeExecRef) :
                  ExitFailure(activeExecRef[i].requestId, Head(toRenderer).code)
           /\ \A i \in 1..Len(execQueueRef) :
                  ExitFailure(execQueueRef[i].requestId, Head(toRenderer).code)]_vars

\* the calls of executeWithGlobalTerminal made so far
Called == 1..(nextExecRequestId - 1)

\* the panel dispatched this result for the request
PanelDispatched(requestId, result) ==
    \E i \in 1..Len(execResults) :
        execResults[i].requestId = requestId /\ execResults[i].result = result

\* C6: every call's promise is resolved at most once, by the result event that carries
\* its own requestId or by its timeout failure; once resolved its pending entry and its
\* timer are gone, so that neither a late result nor the timer resolves it again; until
\* then both its pending entry and its timer stand
C6_ResolvedExactlyOnce ==
    \A r \in Called :
        /\ Len(promiseResults[r]) <= 1
        /\ \A i \in 1..Len(promiseResults[r]) :
               LET resolution == promiseResults[r][i]
               IN  /\ resolution.requestId = r
                   /\ IF resolution.via = "event"
                      THEN PanelDispatched(r, resolution.result)
                      ELSE resolution.result = TimeoutResult
        /\ IF promiseResults[r] = <<>>
           THEN r \in pendingExecRequests /\ r \in armedTimers
           ELSE r \notin pendingExecRequests /\ r \notin armedTimers

\* one call was resolved by its result event and another by its timeout, and the panel
\* dispatched a result for the timed-out request afterwards
C6_ResolvedBothWays ==
    \E r \in Called : \E q \in Called :
        /\ promiseResults[r] # <<>> /\ promiseResults[r][1].via = "event"
        /\ promiseResults[q] # <<>> /\ promiseResults[q][1].via = "timeout"
        /\ PanelResolved(q)

\* the timeout of request R fires in this step
TimeoutFires(R) ==
    /\ R \in armedTimers
    /\ R \notin armedTimers'
    /\ Len(promiseResults'[R]) = Len(promiseResults[R]) + 1
    /\ promiseResults'[R][Len(promiseResults'[R])].via = "timeout"

\* C7: when the timeout of request R fires, R's caller is resolved with the timeout
\* failure and only R's entries leave the pending map and the map of held requests;
\* every other request keeps its pending entry, its timer, its resolution state and
\* its place among the held and the queued requests
C7_TimeoutFrame ==
    [][\A R \in 1..MaxRequests :
           TimeoutFires(R) =>
               /\ promiseResults'[R] = Append(promiseResults[R],
                                              [via |-> "timeout", requestId |-> R,
                                               result |-> TimeoutResult])
               /\ ~TimeoutResult.success /\ TimeoutResult.code = <<>>
               /\ pendingExecRequests' = pendingExecRequests \ {R}
               /\ armedTimers' = armedTimers \ {R}
               /\ queuedExecDispatches'
                      = SelectSeq(queuedExecDispatches, LAMBDA e : e.requestId # R)
               /\ \A r \in 1..MaxRequests \ {R} : promiseResults'[r] = promiseResults[r]
               /\ execQueueRef' = execQueueRef
               /\ activeExecRef' = activeExecRef
               /\ execResults' = execResults]_vars

\* a request timed out while another request was still held for the ready event
C7_TimedOutBesideHeld ==
    \E R \in Called : \E r \in Called :
        /\ R # r
        /\ promiseResults[R] # <<>> /\ promiseResults[R][1].via = "timeout"
        /\ r \in pendingExecRequests
        /\ \E i \in 1..Len(queuedExecDispatches) : queuedExecDispatches[i].requestId = r

----------------------------------------------------------------------------
(* SpecFlow: the mounted panel with its session and no request; the shell  *)
(* prints text in large pieces and the display writes them one by one      *)

MaxFlowChunks == 3

FlowChunkLengths == {65536, 262144, 524288}

FlowStart ==
    LET env == [spawnOk |-> TRUE, hasDims |-> TRUE]
    IN  Settle(ensureSession(Blank, env, <<>>), env)

FlowInit ==
    /\ StateIs(FlowStart)
    /\ NoFeed
    /\ shellSwitches = 0

\* the pty of the session, unless paused, hands the next piece of text to onData
FlowOutput ==
    /\ Idle
    /\ \E sessionId \in DOMAIN terminalSessions :
           /\ ~terminalSessions[sessionId].flowPaused
           /\ ptyEmitted[sessionId] < MaxFlowChunks
           /\ \E length \in FlowChunkLengths :
                  Commit(ptyOnText([St EXCEPT !.ptyEmitted[sessionId] = @ + 1],
                                   sessionId, length))
    /\ UNCHANGED envVars

FlowNext ==
    \/ FlowOutput
    \/ Deliver
    \/ TermWriteDone

SpecFlow == FlowInit /\ [][FlowNext]_vars

\* the main process holds the panel's session paused
PausedInMain ==
    /\ sessionIdRef \in DOMAIN terminalSessions
    /\ terminalSessions[sessionIdRef].flowPaused

\* calls of pty.pause() or pty.resume() made in this step
NewPtyCalls(op) ==
    Cardinality({i \in (Len(ptyLog) + 1)..Len(ptyLog') : ptyLog'[i].op = op})

\* text for the current session is handled in this step and brings the byte count
\* queued for display to the high watermark
ReachesHighWatermark ==
    /\ Deliver
    /\ Head(toRenderer).type = "text"
    /\ Head(toRenderer).sessionId = sessionIdRef
    /\ pendingBytesRef + Head(toRenderer).length >= OUTPUT_PAUSE_WATERMARK

\* C10: watermark hysteresis: reaching the high watermark while unpaused pauses the
\* session exactly once, and nothing pauses it again while it is paused; a completed
\* display write that finds the count above the low watermark resumes nothing; a
\* completed write that finds the paused session's count at or below the low
\* watermark resumes it exactly once
C10_WatermarkHysteresis ==
    [][/\ (ReachesHighWatermark /\ ~flowPausedRef /\ ~PausedInMain) => NewPtyCalls("pause") = 1
       /\ PausedInMain => NewPtyCalls("pause") = 0
       /\ (TermWriteDone /\ pendingBytesRef > OUTPUT_RESUME_WATERMARK)
              => NewPtyCalls("resume") = 0
       /\ (TermWriteDone /\ PausedInMain /\ pendingBytesRef <= OUTPUT_RESUME_WATERMARK)
              => NewPtyCalls("resume") = 1]_vars

----------------------------------------------------------------------------
(* Failures of dispatch                                                    *)

\* startNextExec resumes from await ensureSession() in the next step
StartNextExecResumes ==
    /\ microtasks # <<>>
    /\ Head(microtasks).fn = "startNextExec"
    /\ Head(microtasks).pc = "ensured"

\* the awaited ensureSession has ended and has left no session: its creation failed
CreationFailed == sessionIdRef = 0 /\ ~creatingSessionRef

\* the results the panel dispatches in this step
NewExecResults == SubSeq(execResults', Len(execResults) + 1, Len(execResults'))

\* the panel dispatches this failure for the request in this step
FailsNow(requestId, stdout, message) ==
    \E i \in 1..Len(NewExecResults) :
        NewExecResults[i] = [requestId |-> requestId, result |-> FailureResult(stdout, message)]

\* the call with this id is resolved with this result, unless it was resolved before
ResolvedWith(requestId, result) ==
    IF requestId \in pendingExecRequests
    THEN /\ requestId \notin pendingExecRequests'
         /\ promiseResults'[requestId]
                = <<[via |-> "event", requestId |-> requestId, result |-> result]>>
    ELSE promiseResults'[requestId] = promiseResults[requestId]

WriteFailureNext ==
    /\ Idle
    /\ toRenderer # <<>>
    /\ Head(toRenderer).type = "reply"
    /\ Head(toRenderer).frame.fn = "startNextExec"
    /\ Head(toRenderer).frame.pc = "written"
    /\ ~Head(toRenderer).ok

WriteFailure == FailureResult(<<>>, "Failed to write command to terminal session.")

\* startNextExec goes on with the queue: its next run awaits ensureSession
DispatchProceeds ==
    \/ execQueueRef' = <<>>
    \/ \E i \in 1..Len(microtasks') :
           microtasks'[i] = [fn |-> "startNextExec", pc |-> "ensured"]
    \/ ensureCaller' = <<[fn |-> "startNextExec", pc |-> "ensured"]>>

\* C12 as stated: when the write of a request's wrapper fails, the call of that request
\* is resolved with the write-failure result
C12_WriteFailureResolves ==
    [][(WriteFailureNext /\ Deliver) =>
           promiseResults'[Head(toRenderer).frame.requestId]
               = <<[via |-> "event", requestId |-> Head(toRenderer).frame.requestId,
                    result |-> WriteFailure]>>]_vars

\* C12: when the answer of a failed write is handled, the panel dispatches the
\* write-failure result for that request and for no other, which resolves the call
\* unless it was resolved before; the ActiveExec is cleared, the queue keeps its
\* requests in their order, and dispatch goes on with the queue
C12_WriteFailureDispatched ==
    [][(WriteFailureNext /\ Deliver) =>
           /\ NewExecResults = <<[requestId |-> Head(toRenderer).frame.requestId,
                                  result |-> WriteFailure]>>
           /\ ResolvedWith(Head(toRenderer).frame.requestId, WriteFailure)
           /\ \A r \in 1..MaxRequests :
                  r # Head(toRenderer).frame.requestId
                      => promiseResults'[r] = promiseResults[r]
           /\ activeExecRef' = <<>>
           /\ execQueueRef' = execQueueRef
           /\ DispatchProceeds]_vars

\* a call was resolved with the write-failure result while another request waited
C12_WriteFailedBeforeQueued ==
    /\ \E r \in 1..MaxRequests :
           promiseResults[r] = <<[via |-> "event", requestId |-> r, result |-> WriteFailure]>>
    /\ execQueueRef # <<>>

----------------------------------------------------------------------------
(* SpecPair: two requests run one after the other in one session.  The     *)
(* first is active and the second is queued behind it; the session prints  *)
(* for the first, possibly with late bytes after its done marker line, and *)
(* for the second once its wrapper was written.  The output arrives split  *)
(* into chunks at arbitrary offsets.                                       *)

PairStart ==
    Settle(executeWithGlobalTerminal(CodecStart, [spawnOk |-> TRUE, hasDims |-> TRUE],
                                     <<"l", "s">>),
           [spawnOk |-> TRUE, hasDims |-> TRUE])

\* the characters only the first command prints
FirstChars == {"x", "z"}

\* bytes of the first command that come after its done marker line
LateOutputs == {<<>>, <<"z", "\n">>}

\* what the session prints for the first request
FirstPart(late) ==
    BeginMarkerOf(RequestIdString(1)) \o <<"\n">>
        \o <<"x", "\n">>
        \o DoneMarkerOf(RequestIdString(1)) \o <<"0", "_", "_", "\n">>
        \o late

SecondOutputs == {<<>>, << <<"a", "\n">> >>}

SecondEchoes ==
    {<<>>, PrintfBeginInvocation \o BeginMarkerOf(RequestIdString(2)) \o <<"'", "\n">>}

\* what the session prints for the second request
SecondPart(echo, out, code) ==
    echo \o BeginMarkerOf(RequestIdString(2)) \o <<"\n">>
         \o Flatten(out)
         \o DoneMarkerOf(RequestIdString(2)) \o intToString(code) \o <<"_", "_", "\n">>

PairInit ==
    /\ StateIs(PairStart)
    /\ cmdOut \in SecondOutputs
    /\ cmdCode = 0
    /\ \E late \in LateOutputs : \E echo \in SecondEchoes :
           stream = FirstPart(late) \o SecondPart(echo, cmdOut, cmdCode)
    /\ fedPos = 0
    /\ chunksFed = 0
    /\ shellSwitches = 0

\* the shell prints for the second request only after it has received its wrapper
FeedLimit ==
    IF WrappersOf(St, 1) # <<>> /\ WrappersOf(St, 1)[Len(WrappersOf(St, 1))].requestId = 2
    THEN Len(stream)
    ELSE Max({Len(FirstPart(late)) : late \in {l \in LateOutputs :
                                                  startsWith(stream, FirstPart(l))}})

\* the next piece comes when the renderer has taken the last one and the display has
\* written what it was given
PairFeed ==
    /\ Idle
    /\ toRenderer = <<>>
    /\ termWritesOutstanding = 0
    /\ fedPos < FeedLimit
    /\ \E k \in 1..(FeedLimit - fedPos) :
           /\ Commit(ptyOnData(St, 1, SubSeq(stream, fedPos + 1, fedPos + k)))
           /\ fedPos' = fedPos + k
    /\ chunksFed' = IF chunksFed < MaxChunkCount THEN chunksFed + 1 ELSE chunksFed
    /\ UNCHANGED <<stream, cmdOut, cmdCode, shellSwitches>>

PairNext ==
    \/ PairFeed
    \/ Deliver
    \/ RunMicrotask
    \/ TermWriteDone

SpecPair == PairInit /\ [][PairNext]_vars

\* C13: isolation between requests: no result of the second request carries in its
\* stdout a character that only the first command printed, whether that character
\* came before the first done marker, in the chunk of that marker, or before the
\* second begin marker
C13_Isolation ==
    \A i \in 1..Len(execResults) :
        execResults[i].requestId = 2
            => \A j \in 1..Len(execResults[i].result.stdout) :
                   execResults[i].result.stdout[j] \notin FirstChars

\* the second request resolved with its own output, after late bytes of the first
\* command had come in a chunk of their own or with the start of the second's output
C13_SecondResolvedAfterLate ==
    /\ startsWith(stream, FirstPart(<<"z", "\n">>))
    /\ chunksFed >= 2
    /\ \E i \in 1..Len(execResults) :
           /\ execResults[i].requestId = 2
           /\ execResults[i].result.success
           /\ execResults[i].result.stdout = <<"a", "\n">>

----------------------------------------------------------------------------
(* SpecMain: the session table of the main process under any client.  The  *)
(* handlers of terminal:create, terminal:write, terminal:write-binary,     *)
(* terminal:set-flow-control, terminal:resize and terminal:close are       *)
(* invoked with any session id; each answer joins the messages to the      *)
(* renderer, which are kept as the history of the run.                     *)

MaxMainCalls == 4

SessionIds == 1..MaxSessions

\* payloads of terminal:write-binary: no string, the empty string, "eA==" ("x")
BinaryPayloads == {<<>>, << <<>> >>, << <<"e", "A", "=", "=">> >>}

MainInit ==
    /\ StateIs(Blank)
    /\ NoFeed
    /\ shellSwitches = 0

MainCreate ==
    /\ Len(toRenderer) < MaxMainCalls
    /\ nextTerminalSessionId <= MaxSessions
    /\ \E spawnOk \in BOOLEAN :
           LET r == createTerminalSession(St, ZshPath, spawnOk)
           IN  Commit(Reply(r.s, [fn |-> "terminal:create", sessionId |-> r.sessionId], r.ok))
    /\ UNCHANGED envVars

MainWrite ==
    /\ Len(toRenderer) < MaxMainCalls
    /\ \E sessionId \in SessionIds :
           LET r == writeTerminalSession(St, sessionId, <<"x">>, 0)
           IN  Commit(Reply(r.s, [fn |-> "terminal:write", sessionId |-> sessionId], r.ok))
    /\ UNCHANGED envVars

MainWriteBinary ==
    /\ Len(toRenderer) < MaxMainCalls
    /\ \E sessionId \in SessionIds : \E dataBase64 \in BinaryPayloads :
           LET r == writeTerminalSessionBinary(St, sessionId, dataBase64)
           IN  Commit(Reply(r.s, [fn |-> "terminal:write-binary", sessionId |-> sessionId,
                                  dataBase64 |-> dataBase64], r.ok))
    /\ UNCHANGED envVars

MainSetFlowControl ==
    /\ Len(toRenderer) < MaxMainCalls
    /\ \E sessionId \in SessionIds : \E paused \in BOOLEAN :
           LET r == setTerminalSessionFlowControl(St, sessionId, paused)
           IN  Commit(Reply(r.s, [fn |-> "terminal:set-flow-control", sessionId |-> sessionId,
                                  paused |-> paused], r.ok))
    /\ UNCHANGED envVars

MainResize ==
    /\ Len(toRenderer) < MaxMainCalls
    /\ \E sessionId \in SessionIds :
           LET r == resizeTerminalSession(St, sessionId)
           IN  Commit(Reply(r.s, [fn |-> "terminal:resize", sessionId |-> sessionId], r.ok))
    /\ UNCHANGED envVars

MainClose ==
    /\ Len(toRenderer) < MaxMainCalls
    /\ \E sessionId \in SessionIds :
           LET r == closeTerminalSession(St, sessionId)
           IN  Commit(Reply(r.s, [fn |-> "terminal:close", sessionId |-> sessionId], r.ok))
    /\ UNCHANGED envVars

MainNext ==
    \/ MainCreate
    \/ MainWrite
    \/ MainWriteBinary
    \/ MainSetFlowControl
    \/ MainResize
    \/ MainClose
    \/ PtyExit

SpecMain == MainInit /\ [][MainNext]_vars

\* the step is the answer to a session operation
SessionOps ==
    {"terminal:write", "terminal:write-binary", "terminal:set-flow-control",
     "terminal:resize", "terminal:close"}

Answer == toRenderer'[Len(toRenderer')]

SessionOpAnswered ==
    /\ Len(toRenderer') = Len(toRenderer) + 1
    /\ Answer.type = "reply"
    /\ Answer.frame.fn \in SessionOps

UnknownIdFails ==
    Answer.frame.sessionId \notin DOMAIN terminalSessions =>
        /\ ~Answer.ok
        /\ UNCHANGED <<terminalSessions, nextTerminalSessionId, ptyRunning, ptyLog, ptyEmitted>>

Undecodable == Answer.frame.fn = "terminal:write-binary" /\ Answer.frame.dataBase64 = <<>>

----------------------------------------------------------------------------
(* SpecMainFair: a pty that was killed ends, and its onExit listener runs  *)

SpecMainFair == SpecMain /\ WF_vars(PtyExit)

PtyCalls(sessionId, op) ==
    {i \in 1..Len(ptyLog) : ptyLog[i].sessionId = sessionId /\ ptyLog[i].op = op}

ExitEvents(sessionId) ==
    {i \in 1..Len(toRenderer) :
        toRenderer[i].type = "exit" /\ toRenderer[i].sessionId = sessionId}

\* the places in the history where the session was closed or its exit was emitted
Endings(sessionId) ==
    ExitEvents(sessionId) \cup
        {i \in 1..Len(toRenderer) :
            /\ toRenderer[i].type = "reply"
            /\ toRenderer[i].ok
            /\ toRenderer[i].frame = [fn |-> "terminal:close", sessionId |-> sessionId]}

SessionGone(sessionId) ==
    /\ sessionId \notin DOMAIN terminalSessions
    /\ \A i \in Endings(sessionId) : \A j \in (i + 1)..Len(toRenderer) :
           (/\ toRenderer[j].type = "reply"
            /\ toRenderer[j].frame.fn \in SessionOps
            /\ toRenderer[j].frame.sessionId = sessionId) => ~toRenderer[j].ok

----------------------------------------------------------------------------
(* SpecKeys: the user types into the panel while requests are made, the    *)
(* shell is switched and sessions end; the shells print nothing            *)

KeysNext ==
    \/ Keystroke
    \/ ExecuteWithGlobalTerminal
    \/ ReadyEvent
    \/ Deliver
    \/ RunMicrotask
    \/ TermWriteDone
    \/ PtyExit
    \/ SwitchShell

SpecKeys == Init /\ [][KeysNext]_vars

\* the step is the term.onData listener taking `data`
Typed(data) == Idle /\ \E env \in Envs(St) : Commit(termOnData(St, env, data))

CreationStarts == nextTerminalSessionId' # nextTerminalSessionId

\* C17: once the panel is mounted, a session creation is started only by an Enter keystroke
\* without a session, by the dispatch of an exec request or by a shell switch; any other
\* keystroke without a session reaches no pty and starts nothing
C17_OnlyExplicitActionsCreate ==
    [][/\ CreationStarts =>
              \/ sessionIdRef = 0 /\ Typed(<<"\r">>)
              \/ /\ ensureCaller' # <<>>
                 /\ ensureCaller'[1] \in {[fn |-> "startNextExec", pc |-> "ensured"],
                                          [fn |-> "recreateSession", pc |-> "ensured"]}
       /\ \A data \in Keystrokes \ {<<"\r">>} :
              (sessionIdRef = 0 /\ Typed(data)) =>
                  UNCHANGED <<mainVars, sessionIdRef, creatingSessionRef, asyncVars>>]_vars

\* session 1 ended by itself, the panel took the exit, and Enter started session 2
C17_EnterAfterExit ==
    /\ shellSwitches = 0
    /\ nextExecRequestId = 1
    /\ PtyCalls(1, "spawn") # {}
    /\ 1 \notin ptyRunning
    /\ \A i \in 1..Len(ptyLog) : ptyLog[i].op # "kill"
    /\ sessionIdRef = 0
    /\ creatingSessionRef
    /\ userInteractedRef
    /\ toRenderer = <<[type |-> "reply", ok |-> TRUE,
                       frame |-> [fn |-> "ensureSession", pc |-> "created", sessionId |-> 2]]>>

----------------------------------------------------------------------------
(* One session creation at a time                                          *)

\* the createTerminalSession calls of the panel that are not answered yet
CreatesInFlight ==
    {i \in 1..Len(toRenderer) :
        /\ toRenderer[i].type = "reply"
        /\ toRenderer[i].frame.fn = "ensureSession"
        /\ toRenderer[i].frame.pc = "created"}

----------------------------------------------------------------------------
(* Flow control in the main process                                        *)

\* the pause and resume calls made on the pty of a session, in order
FlowCalls(log, sessionId) ==
    SelectSeq(log, LAMBDA e : e.sessionId = sessionId /\ e.op \in {"pause", "resume"})

Alternating(calls) ==
    \A k \in 1..Len(calls) : calls[k].op = IF k % 2 = 1 THEN "pause" ELSE "resume"

\* the step answers a flow-control request for the state the live session is already in
RepeatedFlowRequest ==
    /\ SessionOpAnswered
    /\ Answer.frame.fn = "terminal:set-flow-control"
    /\ Answer.frame.sessionId \in DOMAIN terminalSessions
    /\ Answer.frame.paused = terminalSessions[Answer.frame.sessionId].flowPaused

\* C18: a pause request on a paused session and a resume request on a session that is not
\* paused change nothing and return success, and the pause and resume calls on each
\* session's pty alternate, starting with pause
C18_FlowControlIdempotent ==
    [][/\ RepeatedFlowRequest =>
              /\ Answer.ok
              /\ UNCHANGED <<terminalSessions, nextTerminalSessionId, ptyRunning, ptyLog,
                             ptyEmitted>>
       /\ \A sessionId \in SessionIds : Alternating(FlowCalls(ptyLog', sessionId))]_vars

\* session 1 was asked to pause twice and then to resume: its pty was paused once and
\* resumed once
C18_PausedTwiceResumed ==
    /\ Len(toRenderer) = 4
    /\ \A i \in 2..3 :
           toRenderer[i] = [type |-> "reply", ok |-> TRUE,
                            frame |-> [fn |-> "terminal:set-flow-control", sessionId |-> 1,
                                       paused |-> TRUE]]
    /\ toRenderer[4] = [type |-> "reply", ok |-> TRUE,
                         frame |-> [fn |-> "terminal:set-flow-control", sessionId |-> 1,
                                    paused |-> FALSE]]
    /\ Len(FlowCalls(ptyLog, 1)) = 2

----------------------------------------------------------------------------
(* SpecLive: requests are made of a mounted panel whose shells print       *)
(* nothing.  The event loop runs every task that is ready: the IPC         *)
(* messages of the main process, the continuations of the panel's          *)
(* functions and the callbacks of the display.  Calls of the library and   *)
(* the ready event come from outside and may never come.                   *)

LiveNext ==
    \/ ExecuteWithGlobalTerminal
    \/ ReadyEvent
    \/ Deliver
    \/ RunMicrotask
    \/ TermWriteDone

SpecLive ==
    /\ Init
    /\ [][LiveNext]_vars
    /\ WF_vars(Deliver)
    /\ WF_vars(RunMicrotask)
    /\ WF_vars(TermWriteDone)

WrapperWritten(requestId) ==
    \E i \in 1..Len(ptyLog) : ptyLog[i].op = "write" /\ ptyLog[i].requestId = requestId

\* a createTerminalSession call found no shell to spawn
SpawnFailed == Cardinality({i \in 1..Len(ptyLog) : ptyLog[i].op = "spawn"}) < nextTerminalSessionId - 1

\* C19: the first request, made while no ActiveExec exists, leads to its wrapper being
\* written to the session, unless a session creation fails
C19_CallLeadsToDispatch ==
    (1 \in pendingExecRequests /\ activeExecRef = <<>>) ~> (WrapperWritten(1) \/ SpawnFailed)

----------------------------------------------------------------------------
(* SpecShell: one terminal:create request with any shell value, and the    *)
(* end of the session it created                                           *)

MaxShellLength == 4

ShellAlphabet == {"/", "b", "a", "s", "h", "z", "B", " "}

\* the shell values of a request: every string of the alphabet up to MaxShellLength
\* characters (the absent value is the empty one) and some longer paths
RawShells ==
    UNION {[1..n -> ShellAlphabet] : n \in 0..MaxShellLength}
        \cup {ZshPath, BashPath, DefaultShell,
               <<"/", "b", "i", "n", "/", "f", "i", "s", "h">>,
               <<"/", "o", "p", "t", "/", "Z", "S", "H">>,
               <<"/", "t", "m", "p", "/", "b", "a", "s", "h", "/", "x">>}

ShellCreate ==
    /\ toRenderer = <<>>
    /\ \E rawShell \in RawShells : \E spawnOk \in BOOLEAN :
           LET r == createTerminalSession(St, rawShell, spawnOk)
           IN  Commit(Reply(r.s, [fn |-> "terminal:create", shell |-> rawShell,
                                  sessionId |-> r.sessionId], r.ok))
    /\ UNCHANGED envVars

SpecShell == MainInit /\ [][ShellCreate \/ PtyExit]_vars

\* rawShell, surrounding white space aside, is `word` in any letter case, alone or after
\* the last slash of a path
NamesShell(rawShell, word) ==
    \E i \in 1..Len(rawShell) : \E j \in i..Len(rawShell) :
        /\ \A k \in (1..(i - 1)) \cup ((j + 1)..Len(rawShell)) : IsSpace(rawShell[k])
        /\ ~IsSpace(rawShell[i])
        /\ ~IsSpace(rawShell[j])
        /\ j - Len(word) + 1 >= i
        /\ \A n \in 1..Len(word) :
               toLowerCase(<<rawShell[j - Len(word) + n]>>) = <<word[n]>>
        /\ j - Len(word) + 1 = i \/ rawShell[j - Len(word)] = "/"

\* the shells spawned for the request that `answer` answers
SpawnedFor(answer) ==
    {ptyLog[i].data : i \in {k \in 1..Len(ptyLog) :
        ptyLog[k].op = "spawn" /\ ptyLog[k].sessionId = answer.frame.sessionId}}

\* C20: the shell spawned for a request is /bin/zsh when the requested value names zsh,
\* /bin/bash when it names bash, and the configured default for every other value; a
\* requested path is spawned only if it is one of these
C20_ShellFromAllowList ==
    \A i \in 1..Len(toRenderer) :
        (toRenderer[i].type = "reply" /\ toRenderer[i].ok) =>
            /\ SpawnedFor(toRenderer[i]) =
                   {IF NamesShell(toRenderer[i].frame.shell, <<"z", "s", "h">>) THEN ZshPath
                    ELSE IF NamesShell(toRenderer[i].frame.shell, <<"b", "a", "s", "h">>)
                    THEN BashPath
                    ELSE DefaultShell}
            /\ SpawnedFor(toRenderer[i]) \subseteq {ZshPath, BashPath, DefaultShell}

\* the request asked for "Bash" and /bin/bash was spawned
C20_BashInCapitals ==
    /\ toRenderer # <<>>
    /\ toRenderer[1].ok
    /\ toRenderer[1].frame.shell = <<"B", "a", "s", "h">>
    /\ ptyLog = <<[sessionId |-> 1, op |-> "spawn", requestId |-> 0, data |-> BashPath,
                    bytes |-> <<>>]>>

----------------------------------------------------------------------------
(* The ActiveExec and the session of its wrapper                           *)

\* the sessions the wrapper of the active request was written to
ActiveExecSessions ==
    IF activeExecRef = <<>> THEN {}
    ELSE {ptyLog[i].sessionId : i \in {k \in 1..Len(ptyLog) :
             ptyLog[k].op = "write" /\ ptyLog[k].requestId = activeExecRef[1].requestId}}

\* C21: whenever an ActiveExec exists, the session its wrapper was written to is the
\* panel's current session: every way a session ends clears the ActiveExec, so a shell
\* switch never leaves an ActiveExec behind
C21_ActiveExecOnCurrentSession ==
    \A sessionId \in ActiveExecSessions : sessionIdRef = sessionId

----------------------------------------------------------------------------
(* SpecQueue: Spec with an event loop that runs every continuation that is *)
(* ready; a resolved promise resumes its awaiter in a microtask, and the   *)
(* microtask queue is emptied before the next task starts                  *)

QueueNext ==
    \/ ExecuteWithGlobalTerminal
    \/ ReadyEvent
    \/ Deliver
    \/ RunMicrotask
    \/ TermWriteDone
    \/ PtyOutput
    \/ PtyExit
    \/ SwitchShell

SpecQueue == Init /\ [][QueueNext]_vars /\ WF_vars(RunMicrotask)

\* no request is active, request `requestId` is the next of the queue and the panel's
\* session is alive and ready (no ensureSession is on its way)
QueueHeadWaits(requestId) ==
    /\ activeExecRef = <<>>
    /\ ~creatingSessionRef
    /\ execQueueRef # <<>>
    /\ Head(execQueueRef).requestId = requestId
    /\ sessionIdRef # 0
    /\ sessionIdRef \in DOMAIN terminalSessions

\* C22: once the active request is resolved while the queue is not empty and the session
\* stays alive, the wrapper of the next queued request is eventually written
C22_QueueProgress ==
    \A requestId \in 1..MaxRequests :
        QueueHeadWaits(requestId) ~>
            (WrapperWritten(requestId) \/ sessionIdRef \notin DOMAIN terminalSessions)

\* request 1 was resolved by its done marker and the wrapper of request 2, which waited
\* in the queue, was written to the same session after that
C22_SecondWrittenAfterFirstDone ==
    /\ Len(execResults) = 1
    /\ execResults[1].requestId = 1
    /\ execResults[1].result.success
    /\ Len(WrappersOf(St, 1)) = 2
    /\ WrappersOf(St, 1)[2].requestId = 2
    /\ ptyEmitted[1] = 2
    /\ sessionIdRef = 1

----------------------------------------------------------------------------
(* Before the begin marker (SpecCodec)                                     *)

\* the session output handled so far
Handled == SubSeq(stream, 1, fedPos)

\* the begin marker of the active request has not been seen in what was handled
AwaitingBegin ==
    /\ activeExecRef # <<>>
    /\ ~activeExecRef[1].started
    /\ toRenderer = <<>>

\* nothing went to the display and nothing was captured
NothingShownOrCaptured ==
    /\ activeExecRef[1].captured = <<>>
    /\ activeExecRef[1].outputFilterPartial = <<>>
    /\ pendingOutputRef = <<>>
    /\ pendingBytesRef = 0
    /\ termWritesOutstanding = 0
    /\ execResults = <<>>

\* C23 (as stated): while the begin marker has not been seen, after each chunk the
\* retained tail buffer is the maximal suffix of the input that is a proper prefix of
\* the begin marker, so it is shorter than the marker; nothing is displayed or captured
C23_TailIsMarkerPrefix ==
    AwaitingBegin =>
        /\ activeExecRef[1].partial
               = sliceFrom(Handled, fedPos - getMarkerTailLength(Handled,
                                                                 activeExecRef[1].beginMarker))
        /\ Len(activeExecRef[1].partial) < Len(activeExecRef[1].beginMarker)
        /\ NothingShownOrCaptured

\* C23 (amended): while the begin marker has not been seen, after each chunk the
\* retained tail buffer is the last L characters of the input, L being the length of
\* the begin marker, or the whole input when it is shorter; it ends with the maximal
\* suffix that is a proper prefix of the marker; nothing is displayed or captured
C23_TailIsLastMarkerLength ==
    AwaitingBegin =>
        /\ activeExecRef[1].partial
               = sliceFrom(Handled, Max({0, fedPos - Len(activeExecRef[1].beginMarker)}))
        /\ Len(activeExecRef[1].partial) <= Len(activeExecRef[1].beginMarker)
        /\ endsWith(activeExecRef[1].partial,
                    sliceFrom(Handled, fedPos - getMarkerTailLength(Handled,
                                                                    activeExecRef[1].beginMarker)))
        /\ NothingShownOrCaptured

\* the echo of the wrapper's first line was handled up to a part of the marker: the
\* buffer holds as many characters as the marker has, the last ones a prefix of it
C23_EchoHeldBack ==
    /\ AwaitingBegin
    /\ Len(activeExecRef[1].partial) = Len(activeExecRef[1].beginMarker)
    /\ getMarkerTailLength(Handled, activeExecRef[1].beginMarker) = 5
    /\ chunksFed = 2

----------------------------------------------------------------------------
(* SpecBegin: the session prints the text of the active request's begin    *)
(* marker inside other text of the same line, and never as a line of its   *)
(* own; the output arrives split into chunks at arbitrary offsets          *)

\* what stands in front of the marker text: nothing, or the wrapper's printf up to the
\* opening quote
BeforeMarker == {<<>>, PrintfBeginInvocation}

\* what follows the marker text: the line break, or the closing quote
AfterMarker == {<<"\n">>, <<"'", "\n">>}

\* lines that hold the marker text next to a character that is no line break
EmbeddedMarkerLines ==
    {before \o BeginMarkerOf(RequestIdString(1)) \o after :
        <<before, after>> \in (BeforeMarker \X AfterMarker) \ {<< <<>>, <<"\n">> >>}}

BeginInit ==
    /\ StateIs(CodecStart)
    /\ stream \in EmbeddedMarkerLines
    /\ cmdOut = <<>>
    /\ cmdCode = 0
    /\ fedPos = 0
    /\ chunksFed = 0
    /\ shellSwitches = 0

SpecBegin == BeginInit /\ [][CodecNext]_vars

\* C24: the begin marker is recognised only as a standalone line: marker text that is
\* immediately preceded or followed by a character other than a line break never sets
\* started, however the stream is split into chunks
C24_EmbeddedMarkerNeverStarts ==
    activeExecRef # <<>> /\ ~activeExecRef[1].started

----------------------------------------------------------------------------
(* The shell of the sessions created after a switch                        *)

\* the shells spawned in this step
NewSpawns ==
    {ptyLog'[i].data : i \in {k \in (Len(ptyLog) + 1)..Len(ptyLog') : ptyLog'[k].op = "spawn"}}

\* C25: after the user switched the shell choice, a session the panel creates is
\* spawned with the newly selected shell, whether a live session had to be closed
\* first or no session existed at the time of the switch
C25_SpawnsSelectedShell ==
    [][shellSwitches' > 0 => NewSpawns \subseteq {toShellPath(selectedShellRef')}]_vars

----------------------------------------------------------------------------
(* SpecTeardown: the panel is used and then unmounted; the library, the    *)
(* main process and the functions the panel left suspended go on           *)

TeardownNext ==
    \/ ExecuteWithGlobalTerminal
    \/ ReadyEvent
    \/ Deliver
    \/ RunMicrotask
    \/ TermWriteDone
    \/ PtyOutput
    \/ PtyExit
    \/ Unmount

SpecTeardown == Init /\ [][TeardownNext]_vars

DisposedMessage == "Terminal panel was disposed before command completion."

\* the requests the panel holds: the active one and the queued ones
PanelRequests ==
    {activeExecRef[i].requestId : i \in 1..Len(activeExecRef)}
        \cup {execQueueRef[i].requestId : i \in 1..Len(execQueueRef)}

\* C26: on teardown of the panel the active request and every queued request are
\* resolved with a failure result, the current session is closed, and the pending
\* display buffer and its byte count are reset to empty and zero
C26_TeardownFailsAndResets ==
    [][(termRef /\ ~termRef') =>
           /\ activeExecRef' = <<>>
           /\ execQueueRef' = <<>>
           /\ \A i \in 1..Len(activeExecRef) :
                  /\ FailsNow(activeExecRef[i].requestId, activeExecRef[i].captured,
                              DisposedMessage)
                  /\ ResolvedWith(activeExecRef[i].requestId,
                                  FailureResult(activeExecRef[i].captured, DisposedMessage))
           /\ \A i \in 1..Len(execQueueRef) :
                  /\ FailsNow(execQueueRef[i].requestId, <<>>, DisposedMessage)
                  /\ ResolvedWith(execQueueRef[i].requestId,
                                  FailureResult(<<>>, DisposedMessage))
           /\ Len(NewExecResults) = Cardinality(PanelRequests)
           /\ sessionIdRef' = 0
           /\ sessionIdRef \notin DOMAIN terminalSessions'
           /\ sessionIdRef \in DOMAIN terminalSessions =>
                  ptyLog'[Len(ptyLog')].op = "kill" /\ ptyLog'[Len(ptyLog')].sessionId = sessionIdRef
           /\ pendingOutputRef' = <<>>
           /\ pendingBytesRef' = 0]_vars

\* the panel was unmounted while request 1 was active and request 2 queued: both calls
\* are resolved and session 1 is gone
C26_TornDownWithTwoRequests ==
    /\ ~termRef
    /\ Len(execResults) = 2
    /\ \A i \in 1..2 : execResults[i].requestId = i
                        /\ execResults[i].result.error = <<DisposedMessage>>
    /\ pendingExecRequests = {}
    /\ \A r \in 1..2 : Len(promiseResults[r]) = 1
    /\ ptyLog[Len(ptyLog)] = [sessionId |-> 1, op |-> "kill", requestId |-> 0, data |-> <<>>,
                              bytes |-> <<>>]
    /\ sessionIdRef = 0
    /\ 1 \notin DOMAIN terminalSessions

----------------------------------------------------------------------------
(* The display sink (SpecFlow)                                             *)

IsPrefix(a, b) == Len(a) <= Len(b) /\ SubSeq(b, 1, Len(a)) = a

\* term.write calls made in this step: the change of the outstanding writes, plus the
\* one whose callback ran
WritesIssued ==
    termWritesOutstanding' - termWritesOutstanding + (IF TermWriteDone THEN 1 ELSE 0)

\* C27: display output is written one chunk at a time and in arrival order: at most
\* one write to the sink is outstanding, a chunk is written only when no write is
\* outstanding or in the completion callback of the previous write, and the chunk
\* written is the oldest of the buffer, what arrives being queued behind the rest
C27_OneWriteInArrivalOrder ==
    [][/\ termWritesOutstanding <= 1
       /\ termWritesOutstanding' <= 1
       /\ WritesIssued \in {0, 1}
       /\ WritesIssued = 1 => (termWritesOutstanding = 0 \/ TermWriteDone)
       /\ termRef' =>
              IF WritesIssued = 0 THEN IsPrefix(pendingOutputRef, pendingOutputRef')
              ELSE IF pendingOutputRef # <<>>
              THEN IsPrefix(Tail(pendingOutputRef), pendingOutputRef')
              ELSE pendingOutputRef' = <<>>]_vars

\* one write is outstanding and two chunks of different lengths wait behind it
C27_TwoChunksBehindWrite ==
    /\ termWritesOutstanding = 1
    /\ pumpingOutputRef
    /\ Len(pendingOutputRef) = 2
    /\ pendingOutputRef[1] < pendingOutputRef[2]

----------------------------------------------------------------------------
(* The session-creation error                                              *)

\* the panel fails a request with the session-creation error in this step
CreationErrorNow ==
    \E i \in 1..Len(NewExecResults) :
        NewExecResults[i].result.error = <<"Unable to create terminal session.">>

\* C28: a request is failed with the session-creation error only if a session
\* creation attempt actually failed; a request dispatched while a creation started by
\* another trigger is in progress waits for its outcome
C28_CreationErrorOnlyAfterFailure ==
    [][CreationErrorNow => SpawnFailed']_vars

----------------------------------------------------------------------------
(* Flow control at rest (SpecFlow)                                         *)

\* nothing is left that could issue a resume: no display write is outstanding, no
\* chunk waits, no answer of the main process and no continuation is on its way
FlowAtRest ==
    /\ pendingOutputRef = <<>>
    /\ pendingBytesRef <= OUTPUT_RESUME_WATERMARK
    /\ termWritesOutstanding = 0
    /\ toRenderer = <<>>
    /\ microtasks = <<>>

\* C29: flow control never leaves the session paused for good: no state is reachable
\* in which the pty is paused, the display buffer is empty and no resume is on its way
C29_NeverPausedForGood == ~(PausedInMain /\ FlowAtRest)

----------------------------------------------------------------------------
(* Events of another session                                               *)

\* the next IPC message is a data or exit event of a session that is not the panel's
\* current one
StaleEventNext ==
    /\ Idle
    /\ toRenderer # <<>>
    /\ Head(toRenderer).type \in {"data", "text", "exit"}
    /\ Head(toRenderer).sessionId # sessionIdRef

\* a pty that closeTerminalSession killed prints the next line for its wrappers before
\* its onExit fires: pty.onData does not look at terminalSessions
LateOutput ==
    /\ Idle
    /\ \E sessionId \in ptyRunning \ DOMAIN terminalSessions :
           LET emitted == ptyEmitted[sessionId]
               wrappers == WrappersOf(St, sessionId)
           IN  /\ emitted \div 2 + 1 <= Len(wrappers)
               /\ \E code \in CommandExitCodes :
                      Commit(ptyOnData([St EXCEPT !.ptyEmitted[sessionId] = @ + 1], sessionId,
                                       ShellLine(wrappers[emitted \div 2 + 1].requestId,
                                                 emitted % 2, code)))
    /\ UNCHANGED envVars

StaleNext ==
    \/ QueueNext
    \/ LateOutput

\* SpecStale: requests, shell output, pty exits and one shell switch, with the output a
\* closed session still delivers
SpecStale == Init /\ [][StaleNext]_vars

\* C30: a data event or an exit event whose session id differs from the panel's current
\* session id changes nothing: the ActiveExec with its captured stdout, the queue, the
\* flow-control flag, the display buffer and the session id stay as they are, no request
\* is resolved and nothing is asked of the main process
C30_StaleEventChangesNothing ==
    [][(StaleEventNext /\ toRenderer' = Tail(toRenderer)) =>
           /\ panelVars' = panelVars
           /\ libVars' = libVars
           /\ asyncVars' = asyncVars
           /\ execResults' = execResults
           /\ ptyLog' = ptyLog
           /\ terminalSessions' = terminalSessions]_vars

\* request 1 is active on session 1, which a shell switch closed; the done marker line
\* and the exit event of the closed session were handled and changed nothing: the
\* ActiveExec is unstarted and unresolved, and session 2 is the current one
C30_ClosedSessionIgnored ==
    /\ activeExecRef # <<>>
    /\ ~activeExecRef[1].started
    /\ ActiveExecSessions = {1}
    /\ sessionIdRef = 2
    /\ ptyRunning = {2}
    /\ ptyEmitted[1] = 2
    /\ toRenderer = <<>>
    /\ execResults = <<>>

====
